---- MODULE Spec2Model ----
(***************************************************************************)
(* CramBrain: hybrid retrieval (reciprocal rank fusion) and citation       *)
(* grounding.  Model of apps/api/src/rag/search.py, rag/answer.py and the  *)
(* pydantic models of models/types.py they construct.                      *)
(*                                                                         *)
(* Conventions                                                             *)
(*   - a Python float is modelled by an exact fraction <<n, d>> in lowest  *)
(*     terms (d > 0); the scores that occur are sums of 1/(i+1);           *)
(*   - a Python dict is a TLA+ function; a missing key is a key that is    *)
(*     not in DOMAIN, and reading it raises KeyError;                      *)
(*   - a str is a sequence of one-character strings;                       *)
(*   - the composite key f"{doc_id}:{page}" is the pair <<doc_id, page>>   *)
(*     (page is an int, so the formatted string determines the pair);      *)
(*   - the iteration order of a Python set of str depends on the string    *)
(*     hashes, which CPython randomises per process: hashSeed is the order *)
(*     the running process happens to give to the keys.                    *)
(***************************************************************************)
EXTENDS Integers, Sequences, FiniteSets, TLC

VARIABLES
    vector_results,   \* search.py: list returned by chroma_store.search
    bm25_results,     \* search.py: list returned by _bm25_search
    top_k,            \* search.py: top_k of the request
    hashSeed,         \* per-process str hash order (PYTHONHASHSEED)
    fused,            \* last return value of _reciprocal_rank_fusion, or NoRun
    prevFused,        \* return value of the run before that, or NoRun
    searchOut,        \* outcome of SearchService.search, or NoRun
    passages,         \* answer.py: search_results handed to the answer service
    answer,           \* answer.py: text produced by the generation provider
    extractOut,       \* outcome of _extract_citations, or NoRun
    answerOut,        \* outcome of generate_answer, or NoRun
    gInput,           \* <<citation_count, passage_count>> fed to the score
    gScore,           \* grounding score computed from gInput, or NoRun
    query,            \* search.py: query string of a lexical search
    all_results,      \* search.py: records the store hands to _bm25_search
    bm25_top_k,       \* search.py: top_k argument of _bm25_search
    bm25Out,          \* outcome of _bm25_search, or NoRun
    page_text,        \* pdf.py: text of the page handed to the chunker
    page_num,         \* pdf.py: 0-based index of that page
    images_data,      \* pdf.py: ImageData list of that page
    tables_data,      \* pdf.py: TableData list of that page
    chunksOut,        \* outcome of _create_strict_chunks, or NoRun
    pdf,              \* the uploaded PDF: its pages as PyMuPDF reads them
    enable_ocr,       \* settings.enable_tesseract
    pagesOut,         \* outcome of process_pdf, or NoRun
    server,           \* whether the ASGI server runs the lifespan protocol
    lifespanPc,       \* main.py: position of the lifespan coroutine
    deps,             \* core/deps.py: the global service handles
    collection,       \* store.py: ChromaStore.collection
    model,            \* embed.py: EmbeddingService.model
    attempt,          \* embed.py: loop variable of initialize()
    embedPc,          \* embed.py: position of initialize()
    loads,            \* outcomes of the load attempts made so far
    slept,            \* arguments of the asyncio.sleep calls made so far
    response,         \* answer to the last request, or NoRun
    queryOut,         \* outcome of search() with its provider calls, or NoRun
    askOut,           \* answer of POST /ask with its provider calls, or NoRun
    index,            \* the records of the Chroma collection
    ingestLog,        \* the POST /ingest requests answered so far
    coll,             \* the collection's records, in the order they were added
    req,              \* locals of each search() coroutine on the event loop
    storeCalls,       \* store_chunks calls and POST /ingest requests made so far
    clock,            \* time.time(), in whole seconds
    askLog,           \* the POST /ask requests that reached the rate limiter
    docOut,           \* answer of the last GET /docs/{doc_id}, or NoRun
    payload,          \* routers/quiz.py: JSON body of a POST /quiz
    snippets,         \* rag/quiz.py: snippets handed to generate_quiz
    quizOut,          \* answer of POST /quiz, or NoRun
    itemsOut          \* quiz items of generate_quiz and their conversion, or NoRun

vars == <<vector_results, bm25_results, top_k, hashSeed, fused, prevFused,
          searchOut, passages, answer, extractOut, answerOut, gInput, gScore,
          query, all_results, bm25_top_k, bm25Out,
          page_text, page_num, images_data, tables_data, chunksOut,
          pdf, enable_ocr, pagesOut,
          server, lifespanPc, deps, collection, model, attempt, embedPc,
          loads, slept, response, queryOut, askOut, index,
          ingestLog,
          coll, req, storeCalls, clock, askLog, docOut, payload, snippets, quizOut, itemsOut>>

fusionVars == <<vector_results, bm25_results, top_k, hashSeed, fused,
                prevFused, searchOut>>

answerVars == <<passages, answer, extractOut, answerOut>>

groundVars == <<gInput, gScore>>

lexVars == <<query, all_results, bm25_top_k, bm25Out>>

\* The variables of the parts of the service other than fusion, answering
\* and grounding.
chunkVars == <<page_text, page_num, images_data, tables_data, chunksOut>>

pdfVars == <<pdf, enable_ocr, pagesOut>>

appVars == <<server, lifespanPc, deps, collection, model, attempt, embedPc,
             loads, slept, response>>

providerVars == <<queryOut, askOut>>

ingestVars == <<index, ingestLog>>

loopVars == <<coll, req, storeCalls>>

quizVars == <<payload, snippets, quizOut, itemsOut>>

apiVars == <<clock, askLog, docOut>>

tailVars == <<loopVars, quizVars, apiVars>>

laterVars == <<lexVars, chunkVars, pdfVars, appVars, providerVars, ingestVars,
               tailVars>>

\* Value of an outcome variable before the operation has run.
NoRun == [status |-> "none"]

Returned(list) == [status |-> "returned", results |-> list]

\* A part of the service that takes no step in a behaviour keeps these values.
FirstIdle ==
    /\ vector_results = <<>>
    /\ bm25_results = <<>>
    /\ top_k = 1
    /\ hashSeed = <<>>
    /\ fused = NoRun
    /\ prevFused = NoRun
    /\ searchOut = NoRun
    /\ passages = <<>>
    /\ answer = <<>>
    /\ extractOut = NoRun
    /\ answerOut = NoRun
    /\ gInput = <<0, 0>>
    /\ gScore = NoRun

LexIdle ==
    /\ query = <<>>
    /\ all_results = <<>>
    /\ bm25_top_k = 1
    /\ bm25Out = NoRun

ChunkIdle ==
    /\ page_text = <<>>
    /\ page_num = 0
    /\ images_data = <<>>
    /\ tables_data = <<>>
    /\ chunksOut = NoRun

PdfIdle ==
    /\ pdf = <<>>
    /\ enable_ocr = FALSE
    /\ pagesOut = NoRun

\* The handles of core/deps.py; each is None until the lifespan sets it.
Services ==
    {"chroma_store", "embedding_service", "s3_service", "pdf_processor",
     "search_service", "answer_service", "quiz_service"}

NoDeps == [d \in Services |-> "None"]

AppIdle ==
    /\ server = "lifespan"
    /\ lifespanPc = "not_started"
    /\ deps = NoDeps
    /\ collection = "None"
    /\ model = "None"
    /\ attempt = 0
    /\ embedPc = "idle"
    /\ loads = <<>>
    /\ slept = <<>>
    /\ response = NoRun

ProviderIdle == queryOut = NoRun /\ askOut = NoRun

IngestIdle == index = {} /\ ingestLog = <<>>

QueryIdle == [pc |-> "idle"]

LoopIdle == coll = <<>> /\ req = <<>> /\ storeCalls = 0

QuizIdle == payload = <<>> /\ snippets = <<>> /\ quizOut = NoRun /\ itemsOut = NoRun

ApiIdle == clock = 0 /\ askLog = <<>> /\ docOut = NoRun

TailIdleExcept(g) ==
    /\ IF g = "loop" THEN TRUE ELSE LoopIdle
    /\ IF g = "quiz" THEN TRUE ELSE QuizIdle
    /\ IF g = "api" THEN TRUE ELSE ApiIdle

TailFrame(g) ==
    /\ IF g = "loop" THEN TRUE ELSE UNCHANGED loopVars
    /\ IF g = "quiz" THEN TRUE ELSE UNCHANGED quizVars
    /\ IF g = "api" THEN TRUE ELSE UNCHANGED apiVars

\* Every later part except part g is idle / keeps its variables.
LaterIdleExcept(g) ==
    /\ IF g = "lex" THEN TRUE ELSE LexIdle
    /\ IF g = "chunk" THEN TRUE ELSE ChunkIdle
    /\ IF g = "pdf" THEN TRUE ELSE PdfIdle
    /\ IF g = "app" THEN TRUE ELSE AppIdle
    /\ IF g = "provider" THEN TRUE ELSE ProviderIdle
    /\ IF g = "ingest" THEN TRUE ELSE IngestIdle
    /\ TailIdleExcept(g)

LaterIdle == LaterIdleExcept("none")

LaterFrame(g) ==
    /\ IF g = "lex" THEN TRUE ELSE UNCHANGED lexVars
    /\ IF g = "chunk" THEN TRUE ELSE UNCHANGED chunkVars
    /\ IF g = "pdf" THEN TRUE ELSE UNCHANGED pdfVars
    /\ IF g = "app" THEN TRUE ELSE UNCHANGED appVars
    /\ IF g = "provider" THEN TRUE ELSE UNCHANGED providerVars
    /\ IF g = "ingest" THEN TRUE ELSE UNCHANGED ingestVars
    /\ TailFrame(g)

----------------------------------------------------------------------------
(* Bounds of the model.                                                    *)

MaxLen == 3          \* longest candidate list handed to the fusion
MaxTopK == 2         \* largest top_k of a request
MaxPassages == 2     \* longest passage list handed to the answer service
MaxTokens == 3       \* pieces (markers, words) a generated answer is made of
MaxCitationCount == 8   \* largest citation count fed to the grounding score
MaxPassageCount == 7    \* largest passage count fed to the grounding score

----------------------------------------------------------------------------
(* Exact fractions.                                                        *)

RECURSIVE GCD(_, _)
GCD(a, b) == IF b = 0 THEN a ELSE GCD(b, a % b)

Frac(n, d) ==
    LET g == GCD(n, d) IN IF n = 0 THEN <<0, 1>> ELSE <<n \div g, d \div g>>

FracAdd(x, y) == Frac(x[1] * y[2] + y[1] * x[2], x[2] * y[2])

FracMul(x, y) == Frac(x[1] * y[1], x[2] * y[2])

FracLeq(x, y) == x[1] * y[2] <= y[1] * x[2]

FracLt(x, y) == x[1] * y[2] < y[1] * x[2]

FracMin(x, y) == IF FracLeq(x, y) THEN x ELSE y

Zero == <<0, 1>>

One == <<1, 1>>

Min(a, b) == IF a <= b THEN a ELSE b

Take(s, n) == SubSeq(s, 1, Min(n, Len(s)))

Range(s) == {s[i] : i \in 1..Len(s)}

----------------------------------------------------------------------------
(* Records of the collection.  ChromaStore.search formats a hit as         *)
(* {"id", "text", "metadata", "score"}; a chunk record has the metadata    *)
(* store_chunks gives it, the per-document record has no "page".           *)

ChunkMeta(doc, page) == [doc_id |-> doc, page |-> page, bbox_id |-> "None"]

DocMeta(doc) ==
    [doc_id |-> doc, original_name |-> "notes.pdf", file_url |-> "u", pages |-> 2]

Stored(id, text, md) == [id |-> id, text |-> text, metadata |-> md]

Candidates ==
    { Stored("d1:1:0", <<"a">>, ChunkMeta("d1", 1)),
      Stored("d1:1:1", <<"b">>, ChunkMeta("d1", 1)),
      Stored("d1:2:2", <<"c">>, ChunkMeta("d1", 2)),
      Stored("d2:1:0", <<"d">>, ChunkMeta("d2", 1)),
      Stored("doc_meta:d1", <<"M">>, DocMeta("d1")) }

Hit(c, score) == [id |-> c.id, text |-> c.text, metadata |-> c.metadata, score |-> score]

\* A vector result list: hits in decreasing similarity (1 - distance).
VectorHits(seq) == [i \in 1..Len(seq) |-> Hit(seq[i], Frac(Len(seq) - i + 1, Len(seq) + 1))]

\* A lexical result list: hits in decreasing positive term count.
LexicalHits(seq) == [i \in 1..Len(seq) |-> Hit(seq[i], Frac(Len(seq) - i + 1, 1))]

HasKey(r) == {"doc_id", "page"} \subseteq DOMAIN r.metadata

KeyOf(r) == <<r.metadata.doc_id, r.metadata.page>>

AllKeys == {KeyOf(r) : r \in {c \in Candidates : HasKey(c)}}

\* Lists of distinct records of length <= n (a result list never holds the
\* same record twice).
ListsUpTo(n) ==
    {s \in UNION {[1..m -> Candidates] : m \in 0..n} :
        \A i, j \in 1..Len(s) : i # j => s[i] # s[j]}

\* Orders in which the process may iterate a set of keys.
HashOrders ==
    {s \in [1..Cardinality(AllKeys) -> AllKeys] :
        \A i, j \in 1..Cardinality(AllKeys) : i # j => s[i] # s[j]}

----------------------------------------------------------------------------
(* Python dict and list helpers.                                           *)

EmptyDict == [x \in {} |-> Zero]

Put(d, k, v) == [x \in DOMAIN d \cup {k} |-> IF x = k THEN v ELSE d[x]]

Get(d, k, default) == IF k \in DOMAIN d THEN d[k] ELSE default

\* Iteration order of a set of keys in a process whose hash order is order.
SetIter(S, order) == SelectSeq(order, LAMBDA k : k \in S)

\* sorted(keys, key=score, reverse=True): a stable sort, elements of equal
\* score keep the order they have in keys.
\* Mutant of InsertDesc: sorts by ascending score (reverse=True forgotten).
InsertDesc_Ascending(sorted, k, score) ==
    LET n == Cardinality({i \in 1..Len(sorted) : FracLeq(score[sorted[i]], score[k])})
    IN SubSeq(sorted, 1, n) \o <<k>> \o SubSeq(sorted, n + 1, Len(sorted))

InsertDesc(sorted, k, score) ==
    LET n == Cardinality({i \in 1..Len(sorted) : FracLeq(score[k], score[sorted[i]])})
    IN SubSeq(sorted, 1, n) \o <<k>> \o SubSeq(sorted, n + 1, Len(sorted))

RECURSIVE SortedDesc(_, _)
SortedDesc(keys, score) ==
    IF keys = <<>> THEN <<>>
    ELSE InsertDesc(SortedDesc(SubSeq(keys, 1, Len(keys) - 1), score),
                    keys[Len(keys)], score)

----------------------------------------------------------------------------
(* SearchService._reciprocal_rank_fusion                                   *)

\* for i, result in enumerate(results): scores[key] = 1.0 / (i + 1)
\* (the list index of the model is i + 1; a later entry of the same key
\* overwrites the score an earlier one stored).
RECURSIVE RankScoresFrom(_, _, _)
RankScoresFrom(list, pos, scores) ==
    IF pos > Len(list) THEN scores
    ELSE RankScoresFrom(list, pos + 1, Put(scores, KeyOf(list[pos]), Frac(1, pos)))

RankScores(list) == RankScoresFrom(list, 1, EmptyDict)

CombinedScores(vector_scores, bm25_scores) ==
    [k \in DOMAIN vector_scores \cup DOMAIN bm25_scores |->
        FracAdd(Get(vector_scores, k, Zero), Get(bm25_scores, k, Zero))]

\* sorted(combined_scores.keys(), ...): the dict was filled while iterating
\* the set all_keys, so its key order is the set's iteration order.
SortedKeys(combined, order) == SortedDesc(SetIter(DOMAIN combined, order), combined)

\* for result in vector_results + bm25_results: first one with this key
FirstWithKey(list, k) ==
    list[CHOOSE i \in 1..Len(list) :
            /\ KeyOf(list[i]) = k
            /\ \A j \in 1..(i - 1) : KeyOf(list[j]) # k]

\* A lookup of result["metadata"]["doc_id"] / ["page"] raises KeyError.
FusionFails(vector, bm25) == \E r \in Range(vector) \cup Range(bm25) : ~HasKey(r)

reciprocal_rank_fusion(vector, bm25, k, order) ==
    IF FusionFails(vector, bm25)
    THEN Take(vector, k)
    ELSE LET combined == CombinedScores(RankScores(vector), RankScores(bm25))
             chosen == Take(SortedKeys(combined, order), k)
         IN [i \in 1..Len(chosen) |->
                [FirstWithKey(vector \o bm25, chosen[i]) EXCEPT !.score = combined[chosen[i]]]]

----------------------------------------------------------------------------
(* SearchService.search: conversion of the fused list to RetrievalResult.  *)

\* models/types.py: fields of RetrievalResult declared with Field(...).
RetrievalResultRequired ==
    {"doc_id", "page", "text", "score", "chunk_id", "preview_url", "source_url"}

\* Keyword arguments search() passes to RetrievalResult(...).
RetrievalResultKwargs(result) ==
    [doc_id |-> result.metadata.doc_id,
     page |-> result.metadata.page,
     bbox_id |-> Get(result.metadata, "bbox_id", "None"),
     text |-> result.text,
     score |-> result.score,
     preview_url |-> "",
     source_url |-> Get(result.metadata, "file_url", "")]

\* pydantic: a model is built only when every required field is passed.
Validates(required, kwargs) == required \subseteq DOMAIN kwargs

\* The loop stops at the first entry that raises.
RECURSIVE ConvertFrom(_, _, _)
ConvertFrom(list, pos, done) ==
    IF pos > Len(list) THEN [status |-> "ok", results |-> done]
    ELSE IF ~HasKey(list[pos]) THEN [status |-> "raised", error |-> "KeyError"]
    ELSE IF ~Validates(RetrievalResultRequired, RetrievalResultKwargs(list[pos]))
         THEN [status |-> "raised", error |-> "ValidationError"]
    ELSE ConvertFrom(list, pos + 1, Append(done, RetrievalResultKwargs(list[pos])))

\* The whole handler; embedOk / storeOk say whether the embedding call and
\* the vector-index call returned or threw.
search(vector, bm25, k, order, embedOk, storeOk) ==
    IF ~embedOk THEN [status |-> "raised", error |-> "EmbeddingError"]
    ELSE IF ~storeOk THEN [status |-> "raised", error |-> "StoreError"]
    ELSE ConvertFrom(reciprocal_rank_fusion(vector, bm25, k, order), 1, <<>>)

----------------------------------------------------------------------------
(* Retrieval: one process, a fixed pair of candidate lists.                *)

InitFusion ==
    /\ vector_results \in {VectorHits(s) : s \in ListsUpTo(MaxLen)}
    /\ bm25_results \in {LexicalHits(s) : s \in ListsUpTo(MaxLen)}
    /\ top_k \in 1..MaxTopK
    /\ hashSeed \in HashOrders
    /\ fused = NoRun
    /\ prevFused = NoRun
    /\ searchOut = NoRun
    /\ passages = <<>>
    /\ answer = <<>>
    /\ extractOut = NoRun
    /\ answerOut = NoRun
    /\ gInput = <<0, 0>>
    /\ gScore = NoRun
    /\ LaterIdle

\* One call of _reciprocal_rank_fusion on the lists (at most two are kept).
Fuse ==
    /\ prevFused = NoRun
    /\ searchOut = NoRun
    /\ fused' = Returned(reciprocal_rank_fusion(vector_results, bm25_results,
                                                top_k, hashSeed))
    /\ prevFused' = fused
    /\ UNCHANGED <<vector_results, bm25_results, top_k, hashSeed, searchOut>>
    /\ UNCHANGED <<answerVars, groundVars, laterVars>>

\* The service process is restarted (or another worker process answers):
\* str hashes are drawn afresh.
Restart ==
    /\ fused # NoRun
    /\ prevFused = NoRun
    /\ hashSeed' \in HashOrders \ {hashSeed}
    /\ UNCHANGED <<vector_results, bm25_results, top_k, fused, prevFused, searchOut>>
    /\ UNCHANGED <<answerVars, groundVars, laterVars>>

\* One call of SearchService.search whose two reads returned the lists; search
\* asks the index for top_k * 2 entries.
Search ==
    /\ fused = NoRun
    /\ searchOut = NoRun
    /\ Len(vector_results) <= 2 * top_k
    /\ Len(bm25_results) <= 2 * top_k
    /\ \E embedOk, storeOk \in BOOLEAN :
          searchOut' = search(vector_results, bm25_results, top_k, hashSeed,
                              embedOk, storeOk)
    /\ UNCHANGED <<vector_results, bm25_results, top_k, hashSeed, fused, prevFused>>
    /\ UNCHANGED <<answerVars, groundVars, laterVars>>

NextFusion == Fuse \/ Restart \/ Search

SpecFusion == InitFusion /\ [][NextFusion]_vars

----------------------------------------------------------------------------
(* Properties of the rank fusion.                                          *)

FusionRan == fused.status = "returned"

WellFormedInputs == ~FusionFails(vector_results, bm25_results)

OccursIn(list, k) == \E i \in 1..Len(list) : HasKey(list[i]) /\ KeyOf(list[i]) = k

\* 1-based position of the first (best-ranked) entry of key k in list.
FirstPos(list, k) ==
    CHOOSE i \in 1..Len(list) :
        /\ KeyOf(list[i]) = k
        /\ \A j \in 1..(i - 1) : KeyOf(list[j]) # k

\* 1-based position of the last entry of key k in list.
LastPos(list, k) ==
    CHOOSE i \in 1..Len(list) :
        /\ KeyOf(list[i]) = k
        /\ \A j \in (i + 1)..Len(list) : KeyOf(list[j]) # k

\* Sum over the lists holding k of 1/(i+1), i the 0-based rank of k's entry.
RRFScore(k) ==
    FracAdd(IF OccursIn(vector_results, k)
            THEN Frac(1, FirstPos(vector_results, k)) ELSE Zero,
            IF OccursIn(bm25_results, k)
            THEN Frac(1, FirstPos(bm25_results, k)) ELSE Zero)

\* The value the fusion computes for key k (the score it annotates).
ComputedScore(k) ==
    FracAdd(IF OccursIn(vector_results, k)
            THEN Frac(1, LastPos(vector_results, k)) ELSE Zero,
            IF OccursIn(bm25_results, k)
            THEN Frac(1, LastPos(bm25_results, k)) ELSE Zero)

UnionKeys ==
    {KeyOf(r) : r \in {x \in Range(vector_results) \cup Range(bm25_results) : HasKey(x)}}

ReturnedKeys == {KeyOf(r) : r \in {x \in Range(fused.results) : HasKey(x)}}

\* C2 (as claimed): the score annotated on a returned entry is the sum, over
\* the lists in which its item appears, of 1/(i+1) for the item's 0-based rank
\* i in that list.
C2_RRFScoreFormula ==
    (FusionRan /\ WellFormedInputs) =>
        \A i \in 1..Len(fused.results) :
            fused.results[i].score = RRFScore(KeyOf(fused.results[i]))

AtMostTopK == Len(fused.results) <= top_k

DistinctKeys ==
    \A i, j \in 1..Len(fused.results) :
        (i # j /\ HasKey(fused.results[i]) /\ HasKey(fused.results[j]))
            => KeyOf(fused.results[i]) # KeyOf(fused.results[j])

NonIncreasing ==
    \A i, j \in 1..Len(fused.results) :
        i < j => FracLeq(fused.results[j].score, fused.results[i].score)

NoBetterLeftOut ==
    \A k \in UnionKeys \ ReturnedKeys :
        \A i \in 1..Len(fused.results) :
            ~FracLt(fused.results[i].score, ComputedScore(k))

C4_FusionFailureNeverAborts ==
    (/\ searchOut.status # "none"
     /\ FusionFails(vector_results, bm25_results)
     /\ searchOut.status = "raised" => searchOut.error \notin {"EmbeddingError", "StoreError"})
    => /\ searchOut.status = "ok"
       /\ Len(searchOut.results) = Len(Take(vector_results, top_k))
       /\ \A i \in 1..Len(searchOut.results) :
             searchOut.results[i].text = vector_results[i].text

\* Position at which key k is first met in the inputs, vector list first.
FirstSeen(k) == FirstPos(vector_results \o bm25_results, k)

\* C9 (as claimed): of two returned keys of equal fused score, the one met
\* first in the inputs (vector list before lexical list) is ranked first.
C9_TieBreakInputOrder ==
    (FusionRan /\ WellFormedInputs) =>
        \A i, j \in 1..Len(fused.results) :
            (i < j /\ fused.results[i].score = fused.results[j].score)
                => FirstSeen(KeyOf(fused.results[i])) < FirstSeen(KeyOf(fused.results[j]))

\* C10 (as claimed): two runs of the fusion on equal lists and equal top_k
\* return the same sequence of entries.
C10_RRFDeterminism ==
    prevFused.status = "returned" => fused = prevFused

----------------------------------------------------------------------------
(* AnswerService: passages and generated answers.                          *)

\* len(result.text) > 200 and result.text[:200]
QuoteMax == 200

Digits == <<"0", "1", "2", "3", "4", "5", "6", "7", "8", "9">>

\* A text of n characters whose i-th character is the last digit of i.
TextOfLen(n) == [i \in 1..n |-> Digits[(i % 10) + 1]]

\* A RetrievalResult as its caller built it (every required field set).
Passage(chunk, doc, page, text, score) ==
    [doc_id |-> doc, page |-> page, text |-> text, score |-> score,
     chunk_id |-> chunk, bbox_id |-> "None", preview_url |-> "",
     source_url |-> "u"]

PassagePool ==
    { Passage("d1:1:0", "d1", 1, <<"a", "b", "c">>, <<9, 10>>),
      Passage("d1:1:1", "d1", 1, TextOfLen(QuoteMax + 50), <<7, 10>>),
      Passage("d1:2:2", "d1", 2, TextOfLen(QuoteMax), <<1, 2>>),
      Passage("d2:12:0", "d2", 12, TextOfLen(QuoteMax + 1), <<3, 10>>) }

PassageLists ==
    {s \in UNION {[1..m -> PassagePool] : m \in 0..MaxPassages} :
        \A i, j \in 1..Len(s) : i # j => s[i] # s[j]}

\* Pieces of a generated answer: markers of pages 1, 2, 9 and 12, a marker
\* without page number, and a word.
Tokens ==
    { <<"[", "p", ".", "1", "]">>,
      <<"[", "p", ".", "2", "]">>,
      <<"[", "p", ".", "9", "]">>,
      <<"[", "p", ".", "1", "2", "]">>,
      <<"[", "p", ".", "]">>,
      <<"x", " ">> }

RECURSIVE Flatten(_)
Flatten(ss) == IF ss = <<>> THEN <<>> ELSE ss[1] \o Flatten(Tail(ss))

Answers == {Flatten(ts) : ts \in UNION {[1..m -> Tokens] : m \in 0..MaxTokens}}

RefusalAnswer ==
    <<"I", " ", "d", "o", "n", "'", "t", " ", "h", "a", "v", "e", " ", "e",
      "n", "o", "u", "g", "h", " ", "c", "o", "n", "t", "e", "x", "t", " ",
      "t", "o", " ", "a", "n", "s", "w", "e", "r", " ", "t", "h", "i", "s",
      " ", "q", "u", "e", "s", "t", "i", "o", "n", ".", " ", "P", "l", "e",
      "a", "s", "e", " ", "u", "p", "l", "o", "a", "d", " ", "s", "o", "m",
      "e", " ", "d", "o", "c", "u", "m", "e", "n", "t", "s", " ", "f", "i",
      "r", "s", "t", ".">>

----------------------------------------------------------------------------
(* re.findall(r'\[p\.(\d+)\]', answer) and int(page_num)                   *)

IsDigit(c) == \E i \in 1..10 : Digits[i] = c

DigitValue(c) == (CHOOSE i \in 1..10 : Digits[i] = c) - 1

RECURSIVE ToInt(_)
ToInt(ds) ==
    IF ds = <<>> THEN 0
    ELSE 10 * ToInt(SubSeq(ds, 1, Len(ds) - 1)) + DigitValue(ds[Len(ds)])

\* Number of consecutive digits of text from position pos on (\d+ is greedy).
RECURSIVE DigitRun(_, _)
DigitRun(text, pos) ==
    IF pos <= Len(text) /\ IsDigit(text[pos]) THEN 1 + DigitRun(text, pos + 1) ELSE 0

StartsMarker(text, pos) ==
    /\ pos + 2 <= Len(text)
    /\ text[pos] = "["
    /\ text[pos + 1] = "p"
    /\ text[pos + 2] = "."

\* The digit groups of the non-overlapping matches, left to right.
RECURSIVE FindAllFrom(_, _)
FindAllFrom(text, pos) ==
    IF pos > Len(text) THEN <<>>
    ELSE LET n == DigitRun(text, pos + 3)
             close == pos + 3 + n
         IN IF /\ StartsMarker(text, pos)
               /\ n >= 1
               /\ close <= Len(text)
               /\ text[close] = "]"
            THEN <<SubSeq(text, pos + 3, close - 1)>> \o FindAllFrom(text, close + 1)
            ELSE FindAllFrom(text, pos + 1)

FindAll(text) == FindAllFrom(text, 1)

MarkerPages(text) == [i \in 1..Len(FindAll(text)) |-> ToInt(FindAll(text)[i])]

----------------------------------------------------------------------------
(* AnswerService._extract_citations                                        *)

\* models/types.py: fields of Citation declared with Field(...).
CitationRequired ==
    {"doc_id", "page", "text", "score", "chunk_id", "preview_url", "source_url",
     "quote"}

\* result.text[:200] + "..." if len(result.text) > 200 else result.text
Quote(text) ==
    IF Len(text) > QuoteMax THEN SubSeq(text, 1, QuoteMax) \o <<".", ".", ".">>
    ELSE text

\* Keyword arguments _extract_citations passes to Citation(...).
CitationKwargs(result, page) ==
    [doc_id |-> result.doc_id,
     page |-> page,
     bbox_id |-> result.bbox_id,
     preview_url |-> result.preview_url,
     source_url |-> result.source_url,
     quote |-> Quote(result.text)]

\* Mutant of FirstMatch: the page test is dropped, any marker cites the first
\* passage.
FirstMatch_AnyPage(search_results, page) ==
    IF search_results # <<>> THEN 1 ELSE 0

\* for result in search_results: if result.page == page: ...; break
\* Index of the first passage of that page, 0 when there is none.
FirstMatch(search_results, page) ==
    IF \E i \in 1..Len(search_results) : search_results[i].page = page
    THEN CHOOSE i \in 1..Len(search_results) :
            /\ search_results[i].page = page
            /\ \A j \in 1..(i - 1) : search_results[j].page # page
    ELSE 0

\* The loop over the markers; it ends at the first Citation(...) that raises.
RECURSIVE ExtractFrom(_, _, _, _)
ExtractFrom(pages, pos, search_results, citations) ==
    IF pos > Len(pages) THEN [status |-> "ok", citations |-> citations]
    ELSE LET m == FirstMatch(search_results, pages[pos])
         IN IF m = 0 THEN ExtractFrom(pages, pos + 1, search_results, citations)
            ELSE LET kwargs == CitationKwargs(search_results[m], pages[pos])
                 IN IF Validates(CitationRequired, kwargs)
                    THEN ExtractFrom(pages, pos + 1, search_results,
                                     Append(citations, kwargs))
                    ELSE [status |-> "raised", error |-> "ValidationError",
                          kwargs |-> kwargs]

extract_citations(answer_text, search_results) ==
    ExtractFrom(MarkerPages(answer_text), 1, search_results, <<>>)

----------------------------------------------------------------------------
(* AnswerService.generate_answer                                           *)

\* Mutant of GroundingScore: the min(1.0, ...) cap is dropped.
GroundingScore_NoCap(citation_count, passage_count) ==
    LET max_possible_citations == Min(passage_count, 5)
    IN IF max_possible_citations > 0
       THEN FracAdd(FracMul(Frac(citation_count, max_possible_citations), <<4, 5>>),
                    <<1, 5>>)
       ELSE Zero

\* min(1.0, (citation_count / max_possible_citations) * 0.8 + 0.2)
\*     if max_possible_citations > 0 else 0.0
GroundingScore(citation_count, passage_count) ==
    LET max_possible_citations == Min(passage_count, 5)
    IN IF max_possible_citations > 0
       THEN FracMin(One, FracAdd(FracMul(Frac(citation_count, max_possible_citations),
                                         <<4, 5>>),
                                 <<1, 5>>))
       ELSE Zero

RECURSIVE SumScores(_)
SumScores(rs) == IF rs = <<>> THEN Zero ELSE FracAdd(rs[1].score, SumScores(Tail(rs)))

RetrievalQuality(search_results) ==
    LET avg_score == FracMul(SumScores(search_results), Frac(1, Len(search_results)))
    IN IF FracLeq(<<4, 5>>, avg_score) THEN "excellent"
       ELSE IF FracLeq(<<3, 5>>, avg_score) THEN "good"
       ELSE IF FracLeq(<<2, 5>>, avg_score) THEN "fair"
       ELSE "poor"

\* Mutant of generate_answer: the empty-list check is dropped.
generate_answer_NoEmptyCheck(search_results, llm, answer_text) ==
    IF llm = "throws"
    THEN [status |-> "raised", error |-> "ProviderError",
          llm_calls |-> 1, extract_calls |-> 0]
    ELSE LET ex == extract_citations(answer_text, search_results)
         IN IF ex.status = "raised"
            THEN [status |-> "raised", error |-> ex.error,
                  llm_calls |-> 1, extract_calls |-> 1]
            ELSE [status |-> "ok", answer |-> answer_text,
                  citations |-> ex.citations,
                  grounding_score |-> GroundingScore(Len(ex.citations),
                                                     Len(search_results)),
                  retrieval_quality |-> "poor",
                  llm_calls |-> 1, extract_calls |-> 1]

\* The whole method.  llm is what the completion call does ("text": it
\* returns answer_text, "throws": it raises); llm_calls and extract_calls
\* count the calls made to the provider and to _extract_citations.
generate_answer(search_results, llm, answer_text) ==
    IF search_results = <<>>
    THEN [status |-> "ok", answer |-> RefusalAnswer, citations |-> <<>>,
          grounding_score |-> Zero, retrieval_quality |-> "no_results",
          llm_calls |-> 0, extract_calls |-> 0]
    ELSE IF llm = "throws"
    THEN [status |-> "raised", error |-> "ProviderError",
          llm_calls |-> 1, extract_calls |-> 0]
    ELSE LET ex == extract_citations(answer_text, search_results)
         IN IF ex.status = "raised"
            THEN [status |-> "raised", error |-> ex.error,
                  llm_calls |-> 1, extract_calls |-> 1]
            ELSE [status |-> "ok", answer |-> answer_text,
                  citations |-> ex.citations,
                  grounding_score |-> GroundingScore(Len(ex.citations),
                                                     Len(search_results)),
                  retrieval_quality |-> RetrievalQuality(search_results),
                  llm_calls |-> 1, extract_calls |-> 1]

----------------------------------------------------------------------------
(* Answering: one passage list and the text the provider generates.        *)

InitAnswer ==
    /\ passages \in PassageLists
    /\ answer \in Answers
    /\ extractOut = NoRun
    /\ answerOut = NoRun
    /\ vector_results = <<>>
    /\ bm25_results = <<>>
    /\ top_k = 1
    /\ hashSeed = <<>>
    /\ fused = NoRun
    /\ prevFused = NoRun
    /\ searchOut = NoRun
    /\ gInput = <<0, 0>>
    /\ gScore = NoRun
    /\ LaterIdle

\* A direct call of _extract_citations(answer, passages).
ExtractCitations ==
    /\ extractOut = NoRun
    /\ extractOut' = extract_citations(answer, passages)
    /\ UNCHANGED <<passages, answer, answerOut>>
    /\ UNCHANGED <<fusionVars, groundVars, laterVars>>

\* A call of generate_answer(query, passages); the provider returns answer or
\* throws.
GenerateAnswer ==
    /\ answerOut = NoRun
    /\ \E llm \in {"text", "throws"} :
          answerOut' = generate_answer(passages, llm, answer)
    /\ UNCHANGED <<passages, answer, extractOut>>
    /\ UNCHANGED <<fusionVars, groundVars, laterVars>>

NextAnswer == ExtractCitations \/ GenerateAnswer

SpecAnswer == InitAnswer /\ [][NextAnswer]_vars

----------------------------------------------------------------------------
(* Grounding score as a function of the two counts.                        *)

InitGrounding ==
    /\ gInput \in (0..MaxCitationCount) \X (0..MaxPassageCount)
    /\ gScore = NoRun
    /\ passages = <<>>
    /\ answer = <<>>
    /\ extractOut = NoRun
    /\ answerOut = NoRun
    /\ vector_results = <<>>
    /\ bm25_results = <<>>
    /\ top_k = 1
    /\ hashSeed = <<>>
    /\ fused = NoRun
    /\ prevFused = NoRun
    /\ searchOut = NoRun
    /\ LaterIdle

ComputeGrounding ==
    /\ gScore = NoRun
    /\ gScore' = [status |-> "returned", value |-> GroundingScore(gInput[1], gInput[2])]
    /\ UNCHANGED <<gInput, fusionVars, answerVars, laterVars>>

NextGrounding == ComputeGrounding

SpecGrounding == InitGrounding /\ [][NextGrounding]_vars

----------------------------------------------------------------------------
(* Properties of the citation extractor and of generate_answer.            *)

ExtractRan == extractOut.status # "none"

PassagePages == {passages[i].page : i \in 1..Len(passages)}

\* The markers of the answer that name the page of a supplied passage.
MatchedMarkers == SelectSeq(MarkerPages(answer), LAMBDA n : n \in PassagePages)

\* The first supplied passage of page n.
FirstPassageOf(n) ==
    passages[CHOOSE i \in 1..Len(passages) :
                /\ passages[i].page = n
                /\ \A j \in 1..(i - 1) : passages[j].page # n]

\* C1: every Citation that _extract_citations emits (or sets out to build)
\* has the page of some supplied passage, and an answer whose [p.N] markers
\* all name pages of no supplied passage yields no citation and no error.
C1_CitationSoundness ==
    ExtractRan =>
        /\ extractOut.status = "ok" =>
              \A i \in 1..Len(extractOut.citations) :
                  extractOut.citations[i].page \in PassagePages
        /\ extractOut.status = "raised" => extractOut.kwargs.page \in PassagePages
        /\ MatchedMarkers = <<>> =>
              extractOut = [status |-> "ok", citations |-> <<>>]

\* C1 witness: an answer with a marker of a page that no supplied passage
\* has went through the extractor, which returned.
C1_Witness ==
    /\ extractOut.status = "ok"
    /\ passages # <<>>
    /\ MarkerPages(answer) # <<>>
    /\ MatchedMarkers = <<>>

\* C5: generate_answer on an empty passage list returns the fixed refusal
\* with no citations, grounding score 0.0 and quality "no_results", and calls
\* neither the provider nor the extractor.
C5_EmptyRetrieval ==
    (answerOut.status # "none" /\ passages = <<>>) =>
        answerOut = [status |-> "ok", answer |-> RefusalAnswer, citations |-> <<>>,
                     grounding_score |-> Zero, retrieval_quality |-> "no_results",
                     llm_calls |-> 0, extract_calls |-> 0]

\* C5 witness: generate_answer ran on an empty passage list while the
\* provider had an answer with markers to give.
C5_Witness ==
    /\ answerOut.status = "ok"
    /\ passages = <<>>
    /\ MarkerPages(answer) # <<>>

\* C6 (as claimed): the extractor returns one Citation per marker that names
\* the page of a supplied passage, in order of appearance and without
\* deduplication, each built from the first supplied passage of that page.
C6_CitationOrderMultiplicity ==
    ExtractRan =>
        /\ extractOut.status = "ok"
        /\ Len(extractOut.citations) = Len(MatchedMarkers)
        /\ \A i \in 1..Len(MatchedMarkers) :
              /\ extractOut.citations[i].page = MatchedMarkers[i]
              /\ extractOut.citations[i].doc_id = FirstPassageOf(MatchedMarkers[i]).doc_id
              /\ extractOut.citations[i].quote = Quote(FirstPassageOf(MatchedMarkers[i]).text)

\* C7 (as claimed): for every matched passage the extractor produces a
\* citation whose quote is the passage text when it has at most 200
\* characters, and otherwise its first 200 characters followed by "..."
\* (203 characters).
C7_QuoteTruncation ==
    (ExtractRan /\ MatchedMarkers # <<>>) =>
        /\ extractOut.status = "ok"
        /\ Len(extractOut.citations) = Len(MatchedMarkers)
        /\ \A i \in 1..Len(MatchedMarkers) :
              LET t == FirstPassageOf(MatchedMarkers[i]).text
                  q == extractOut.citations[i].quote
              IN /\ Len(t) <= 200 => q = t
                 /\ Len(t) > 200 =>
                       /\ Len(q) = 203
                       /\ SubSeq(q, 1, 200) = SubSeq(t, 1, 200)
                       /\ SubSeq(q, 201, 203) = <<".", ".", ".">>

\* C8: the grounding score of c >= 0 citations over p passages lies between
\* 0.0 and 1.0, and is 0.0 when there is no passage.
C8_GroundingScoreBounds ==
    gScore.status = "returned" =>
        /\ FracLeq(Zero, gScore.value)
        /\ FracLeq(gScore.value, One)
        /\ gInput[2] = 0 => gScore.value = Zero

\* C8 witness: more citations than passages, more than 5 passages, and the
\* score was computed and capped at 1.0.
C8_Witness ==
    /\ gScore.status = "returned"
    /\ gInput[2] > 5
    /\ gInput[1] > gInput[2]
    /\ gScore.value = One

----------------------------------------------------------------------------
(* SearchService._bm25_search: summed term counts over the records the     *)
(* store returns for the dummy embedding.                                  *)

MaxQueryTokens == 3  \* pieces (words, blanks) a query string is made of
MaxPool == 3         \* records the store hands to the lexical scorer
MaxLexTopK == 2      \* largest top_k of a lexical search

\* str.lower() on the characters that occur.
LowerChar(ch) == CASE ch = "A" -> "a" [] ch = "B" -> "b" [] OTHER -> ch

lower(s) == [i \in 1..Len(s) |-> LowerChar(s[i])]

\* str.split(): the maximal runs of non-blank characters, in order.
RECURSIVE SplitFrom(_, _, _)
SplitFrom(s, i, word) ==
    IF i > Len(s) THEN (IF word = <<>> THEN <<>> ELSE <<word>>)
    ELSE IF s[i] = " "
         THEN (IF word = <<>> THEN SplitFrom(s, i + 1, <<>>)
               ELSE <<word>> \o SplitFrom(s, i + 1, <<>>))
         ELSE SplitFrom(s, i + 1, Append(word, s[i]))

split(s) == SplitFrom(s, 1, <<>>)

MatchAt(text, term, i) ==
    /\ i + Len(term) - 1 <= Len(text)
    /\ SubSeq(text, i, i + Len(term) - 1) = term

\* term in text
Contains(text, term) == \E i \in 1..Len(text) : MatchAt(text, term, i)

\* text.count(term): occurrences found scanning left to right, the scan
\* resuming behind each occurrence found.
RECURSIVE CountFrom(_, _, _)
CountFrom(text, term, i) ==
    IF i + Len(term) - 1 > Len(text) THEN 0
    ELSE IF MatchAt(text, term, i)
         THEN 1 + CountFrom(text, term, i + Len(term))
         ELSE CountFrom(text, term, i + 1)

count(text, term) == CountFrom(text, term, 1)

\* for term in query_terms: if term in text: score += text.count(term)
RECURSIVE TermScoreFrom(_, _, _)
TermScoreFrom(text, query_terms, i) ==
    IF i > Len(query_terms) THEN 0
    ELSE (IF Contains(text, query_terms[i]) THEN count(text, query_terms[i]) ELSE 0)
         + TermScoreFrom(text, query_terms, i + 1)

TermScore(result, query_terms) == TermScoreFrom(lower(result.text), query_terms, 1)

\* Mutant of ScoredResults: keeps the records of score 0 too.
ScoredResults_KeepZero(results, query_terms) ==
    [i \in 1..Len(results) |->
        [results[i] EXCEPT !.score = Frac(TermScore(results[i], query_terms), 1)]]

\* The records of positive score, in pool order, their score overwritten.
ScoredResults(results, query_terms) ==
    LET kept == SelectSeq(results, LAMBDA r : TermScore(r, query_terms) > 0)
    IN [i \in 1..Len(kept) |->
           [kept[i] EXCEPT !.score = Frac(TermScore(kept[i], query_terms), 1)]]

\* _bm25_search(query, doc_id, top_k) when the store returns results, or
\* throws (the except branch returns the empty list).
bm25_search(q, results, k, storeOk) ==
    IF ~storeOk
    THEN [status |-> "returned", results |-> <<>>, store_raised |-> TRUE]
    ELSE LET scored == ScoredResults(results, split(lower(q)))
             sorted == SortedDesc(scored, [r \in Range(scored) |-> r.score])
         IN [status |-> "returned", results |-> Take(sorted, k),
             store_raised |-> FALSE]

LexRecords ==
    { Stored("d1:1:0", <<"a", "a", "a">>, ChunkMeta("d1", 1)),
      Stored("d1:1:1", <<"A", "B", " ", "a">>, ChunkMeta("d1", 1)),
      Stored("d1:2:2", <<"b", "a", " ", "a">>, ChunkMeta("d1", 2)),
      Stored("d1:2:3", <<"c">>, ChunkMeta("d1", 2)) }

LexPools ==
    {s \in UNION {[1..m -> LexRecords] : m \in 0..MaxPool} :
        \A i, j \in 1..Len(s) : i # j => s[i] # s[j]}

QueryTokens == { <<" ">>, <<"a">>, <<"a", "a">>, <<"A", "b">> }

Queries == {Flatten(ts) : ts \in UNION {[1..m -> QueryTokens] : m \in 0..MaxQueryTokens}}

InitLexical ==
    /\ query \in Queries
    /\ all_results \in {VectorHits(s) : s \in LexPools}
    /\ bm25_top_k \in 1..MaxLexTopK
    /\ bm25Out = NoRun
    /\ FirstIdle
    /\ LaterIdleExcept("lex")

\* One call of _bm25_search(query, doc_id, bm25_top_k).
Bm25Search ==
    /\ bm25Out = NoRun
    /\ \E storeOk \in BOOLEAN :
          bm25Out' = bm25_search(query, all_results, bm25_top_k, storeOk)
    /\ UNCHANGED <<query, all_results, bm25_top_k>>
    /\ UNCHANGED <<fusionVars, answerVars, groundVars>>
    /\ LaterFrame("lex")

NextLexical == Bm25Search

SpecLexical == InitLexical /\ [][NextLexical]_vars

----------------------------------------------------------------------------
(* Properties of the lexical scorer.                                       *)

LexRan == bm25Out.status = "returned" /\ ~bm25Out.store_raised

LowerTerms == split(lower(query))

\* Number of occurrences of term in text: the most start positions of term
\* in text that can be chosen without two of them overlapping.
Occurrences(text, term) ==
    LET starts == {i \in 1..Len(text) : MatchAt(text, term, i)}
        disjoint(S) == \A i, j \in S : i # j => (i + Len(term) <= j \/ j + Len(term) <= i)
        sizes == {Cardinality(S) : S \in {T \in SUBSET starts : disjoint(T)}}
    IN CHOOSE n \in sizes : \A m \in sizes : m <= n

RECURSIVE SumOccurrences(_, _)
SumOccurrences(text, terms) ==
    IF terms = <<>> THEN 0
    ELSE Occurrences(text, terms[1]) + SumOccurrences(text, Tail(terms))

LexScore(r) == SumOccurrences(lower(r.text), LowerTerms)

Positive == {i \in 1..Len(all_results) : LexScore(all_results[i]) > 0}

\* C11: the lexical search returns only candidates of positive score, each
\* once and annotated with its score (the sum over the query's lowercase terms
\* of the term's occurrences in the lowercased text), in descending order of
\* score, as many as there are positive candidates up to top_k, and no
\* candidate left out scores more than a returned one.
C11_LexicalScorer ==
    LexRan =>
        LET out == bm25Out.results
        IN /\ Len(out) = Min(bm25_top_k, Cardinality(Positive))
           /\ \A i \in 1..Len(out) :
                 /\ \E j \in Positive :
                       out[i] = [all_results[j] EXCEPT
                                    !.score = Frac(LexScore(all_results[j]), 1)]
                 /\ \A j \in 1..Len(out) : i # j => out[i].id # out[j].id
                 /\ i < Len(out) => FracLeq(out[i + 1].score, out[i].score)
           /\ \A j \in Positive :
                 (\A i \in 1..Len(out) : out[i].id # all_results[j].id) =>
                     \A i \in 1..Len(out) :
                         FracLeq(Frac(LexScore(all_results[j]), 1), out[i].score)

\* C11 witness: a pool with a candidate of score 0 and more positive
\* candidates than top_k, of different scores, one of them matched only
\* through lowercasing, was searched.
C11_Witness ==
    /\ LexRan
    /\ \E i \in 1..Len(all_results) : LexScore(all_results[i]) = 0
    /\ Cardinality(Positive) > bm25_top_k
    /\ \E i, j \in Positive : LexScore(all_results[i]) < LexScore(all_results[j])
    /\ \E i \in 1..Len(bm25Out.results) :
          \E t \in Range(LowerTerms) :
              /\ Contains(lower(bm25Out.results[i].text), t)
              /\ ~Contains(bm25Out.results[i].text, t)

----------------------------------------------------------------------------
(* PDFProcessor: sentence splitting and page-local chunking (utils/pdf.py). *)
(* A chunk_id f"page_{p}_{type}_{n}" is the record [page, type, n] of the  *)
(* values formatted into it (p and n are ints, type a fixed word, so the   *)
(* string determines the record).                                          *)

MaxChunkSize == 500

PyNone == [py |-> "None"]

Terminators == {".", "!", "?"}

Whitespace == {" ", "\n"}

SetMin(S) == CHOOSE x \in S : \A y \in S : x <= y

RECURSIVE SetToSeq(_)
SetToSeq(S) == IF S = {} THEN <<>> ELSE <<SetMin(S)>> \o SetToSeq(S \ {SetMin(S)})

\* str.strip()
strip(str) ==
    IF \A i \in 1..Len(str) : str[i] \in Whitespace THEN <<>>
    ELSE LET n == Len(str)
             first == CHOOSE i \in 1..n :
                         str[i] \notin Whitespace /\ \A j \in 1..(i - 1) : str[j] \in Whitespace
             cut == CHOOSE k \in 0..(n - 1) :
                         str[n - k] \notin Whitespace /\ \A j \in 1..k : str[n - j + 1] \in Whitespace
         IN SubSeq(str, first, n - cut)

\* re.split(r'[.!?]+', text): the pieces between the runs of terminators.
\* The empty strings re.split also returns when the text starts or ends with
\* a terminator are left out here; the filter of the caller drops them.
re_split(text) ==
    LET terms == {i \in 1..Len(text) : text[i] \in Terminators}
        starts == {a \in 1..Len(text) :
                      text[a] \notin Terminators /\ (a = 1 \/ (a - 1) \in terms)}
        last(a) == LET later == {t \in terms : t > a}
                   IN IF later = {} THEN Len(text) ELSE SetMin(later) - 1
        order == SetToSeq(starts)
    IN [k \in 1..Len(order) |-> SubSeq(text, order[k], last(order[k]))]

\* [s.strip() for s in sentences if s.strip()]
split_into_sentences(text) ==
    LET pieces == re_split(text)
    IN SelectSeq([k \in 1..Len(pieces) |-> strip(pieces[k])], LAMBDA x : x # <<>>)

\* len(current_chunk.split())
WordCount(str) ==
    Cardinality({i \in 1..Len(str) :
                    str[i] \notin Whitespace /\ (i = 1 \/ str[i - 1] \in Whitespace)})

ChunkId(page, type, n) == [page |-> page, type |-> type, n |-> n]

\* ChunkData(...) as the chunker builds it; the fields it does not pass keep
\* their defaults.
ChunkData(chunk_id, text, page, chunk_type, metadata) ==
    [chunk_id |-> chunk_id, text |-> text, page |-> page,
     chunk_type |-> chunk_type, bbox_id |-> PyNone, headings |-> PyNone,
     metadata |-> metadata, embedding |-> PyNone]

TextChunk(page_no, chunks, current_chunk, chunk_sentences) ==
    ChunkData(ChunkId(page_no + 1, "text", Len(chunks)), strip(current_chunk),
              page_no + 1, "text",
              [sentences |-> chunk_sentences,
               word_count |-> WordCount(current_chunk),
               char_count |-> Len(current_chunk)])

\* if current_chunk.strip(): chunks.append(ChunkData(...))
Flush(page_no, chunks, current_chunk, chunk_sentences) ==
    IF strip(current_chunk) # <<>>
    THEN Append(chunks, TextChunk(page_no, chunks, current_chunk, chunk_sentences))
    ELSE chunks

\* Mutant of TextChunksFrom: a sentence that does not fit replaces the buffer
\* without the buffer being flushed.
RECURSIVE TextChunksFrom_NoFlush(_, _, _, _, _, _)
TextChunksFrom_NoFlush(sentences, i, page_no, chunks, current_chunk, chunk_sentences) ==
    IF i > Len(sentences)
    THEN Flush(page_no, chunks, current_chunk, chunk_sentences)
    ELSE IF Len(current_chunk) + Len(sentences[i]) > MaxChunkSize
         THEN TextChunksFrom_NoFlush(sentences, i + 1, page_no, chunks,
                                     sentences[i], <<sentences[i]>>)
         ELSE TextChunksFrom_NoFlush(sentences, i + 1, page_no, chunks,
                                     current_chunk \o <<" ">> \o sentences[i],
                                     Append(chunk_sentences, sentences[i]))

\* The loop over the sentences (pdf.py 239-259) and the final flush (262-274).
RECURSIVE TextChunksFrom(_, _, _, _, _, _)
TextChunksFrom(sentences, i, page_no, chunks, current_chunk, chunk_sentences) ==
    IF i > Len(sentences)
    THEN Flush(page_no, chunks, current_chunk, chunk_sentences)
    ELSE IF Len(current_chunk) + Len(sentences[i]) > MaxChunkSize
         THEN TextChunksFrom(sentences, i + 1, page_no,
                             Flush(page_no, chunks, current_chunk, chunk_sentences),
                             sentences[i], <<sentences[i]>>)
         ELSE TextChunksFrom(sentences, i + 1, page_no, chunks,
                             current_chunk \o <<" ">> \o sentences[i],
                             Append(chunk_sentences, sentences[i]))

ImageTag == <<"[", "I", "M", "A", "G", "E", "]", " ">>

TableTag == <<"[", "T", "A", "B", "L", "E", "]", " ">>

ImageChunk(page_no, img_data) ==
    ChunkData(ChunkId(page_no + 1, "image", img_data.page),
              ImageTag \o img_data.text, page_no + 1, "image",
              [bbox |-> img_data.bbox, confidence |-> img_data.confidence,
               ocr_text |-> img_data.text])

ImageChunks(page_no, imgs) ==
    LET kept == SelectSeq(imgs, LAMBDA img : strip(img.text) # <<>>)
    IN [k \in 1..Len(kept) |-> ImageChunk(page_no, kept[k])]

\* A table cell as table.extract() gives it: a str, or None for an empty cell.
Cell(str) == [none |-> FALSE, str |-> str]

NoneCell == [none |-> TRUE, str |-> <<"N", "o", "n", "e">>]

\* sep.join(parts)
RECURSIVE Join(_, _)
Join(sep, parts) ==
    IF parts = <<>> THEN <<>>
    ELSE IF Len(parts) = 1 THEN parts[1]
    ELSE parts[1] \o sep \o Join(sep, Tail(parts))

CellSep == <<" ", "|", " ">>

HeadersTag == <<"H", "e", "a", "d", "e", "r", "s", ":", " ">>

\* " | ".join(table_data.headers) raises TypeError on a None header.
FormatRaises(table_data) ==
    /\ table_data.data # <<>>
    /\ \E i \in 1..Len(table_data.headers) : table_data.headers[i].none

\* _format_table_text(table_data), when it does not raise.
format_table_text(table_data) ==
    IF table_data.data = <<>> THEN <<>>
    ELSE LET head == IF table_data.headers # <<>>
                     THEN << HeadersTag \o Join(CellSep,
                                [i \in 1..Len(table_data.headers) |->
                                    table_data.headers[i].str]) >>
                     ELSE <<>>
             rows == SelectSeq(Take(table_data.data, 5), LAMBDA row : row # <<>>)
             lines == [k \in 1..Len(rows) |->
                          Join(CellSep, [i \in 1..Len(rows[k]) |-> rows[k][i].str])]
         IN Join(<<"\n">>, head \o lines)

TableChunk(page_no, table_data) ==
    ChunkData(ChunkId(page_no + 1, "table", table_data.page),
              TableTag \o format_table_text(table_data), page_no + 1, "table",
              [bbox |-> table_data.bbox, headers |-> table_data.headers,
               rows |-> Len(table_data.data), table_data |-> table_data.data])

TableChunks(page_no, tables) ==
    LET kept == SelectSeq(tables, LAMBDA t : strip(format_table_text(t)) # <<>>)
    IN [k \in 1..Len(kept) |-> TableChunk(page_no, kept[k])]

\* _create_strict_chunks(page_text, page_num, images_data, tables_data)
create_strict_chunks(text, page_no, imgs, tables) ==
    IF \E k \in 1..Len(tables) : FormatRaises(tables[k])
    THEN [status |-> "raised", error |-> "TypeError"]
    ELSE [status |-> "ok",
          chunks |-> TextChunksFrom(split_into_sentences(text), 1, page_no,
                                    <<>>, <<>>, <<>>)
                     \o ImageChunks(page_no, imgs)
                     \o TableChunks(page_no, tables)]

ImageData(page, bbox, text, confidence) ==
    [page |-> page, bbox |-> bbox, text |-> text, confidence |-> confidence]

TableData(page, bbox, data, headers) ==
    [page |-> page, bbox |-> bbox, data |-> data, headers |-> headers]

\* _extract_images_with_ocr(page, page_num): an image is a record of what
\* PyMuPDF and the OCR give for it.
extract_images_with_ocr(images, page_no, ocr) ==
    IF ~ocr THEN <<>>
    ELSE LET kept == SelectSeq(images,
                        LAMBDA img : img.gray_or_rgb /\ strip(img.ocr_text) # <<>>)
         IN [k \in 1..Len(kept) |->
                ImageData(page_no + 1, kept[k].bbox, strip(kept[k].ocr_text),
                          kept[k].confidence)]

\* _extract_tables(page, page_num): a table is the row list table.extract()
\* gives for it, with its bbox.
extract_tables(tables, page_no) ==
    LET kept == SelectSeq(tables, LAMBDA t : Len(t.rows) > 1)
    IN [k \in 1..Len(kept) |->
           TableData(page_no + 1, kept[k].bbox, Tail(kept[k].rows), kept[k].rows[1])]

\* TableDataModel(data: List[List[str]], headers: List[str]) validates.
TableModelValidates(t) ==
    /\ \A i \in 1..Len(t.headers) : ~t.headers[i].none
    /\ \A r \in 1..Len(t.data) : \A i \in 1..Len(t.data[r]) : ~t.data[r][i].none

\* One iteration of the page loop of process_pdf (pdf.py 56-122); spans,
\* headings, slide title and preview image are not part of the model.
ProcessPage(page, page_no, ocr) ==
    LET imgs == extract_images_with_ocr(page.images, page_no, ocr)
        tables == extract_tables(page.tables, page_no)
        made == create_strict_chunks(page.text, page_no, imgs, tables)
    IN IF made.status = "raised" THEN made
       ELSE IF \E k \in 1..Len(tables) : ~TableModelValidates(tables[k])
       THEN [status |-> "raised", error |-> "ValidationError"]
       ELSE [status |-> "ok",
             page_data |-> [page_number |-> page_no + 1, text |-> page.text,
                            chunks |-> made.chunks, images |-> imgs,
                            tables |-> tables]]

\* Mutant of ProcessPagesFrom: numbers every page as the first one.
RECURSIVE ProcessPagesFrom_SamePage(_, _, _, _)
ProcessPagesFrom_SamePage(doc, page_no, ocr, pages_data) ==
    IF page_no >= Len(doc) THEN [status |-> "ok", pages |-> pages_data]
    ELSE LET r == ProcessPage(doc[page_no + 1], 0, ocr)
         IN IF r.status = "raised" THEN r
            ELSE ProcessPagesFrom_SamePage(doc, page_no + 1, ocr,
                                           Append(pages_data, r.page_data))

\* for page_num in range(len(doc)): ...; the first exception ends the run.
RECURSIVE ProcessPagesFrom(_, _, _, _)
ProcessPagesFrom(doc, page_no, ocr, pages_data) ==
    IF page_no >= Len(doc) THEN [status |-> "ok", pages |-> pages_data]
    ELSE LET r == ProcessPage(doc[page_no + 1], page_no, ocr)
         IN IF r.status = "raised" THEN r
            ELSE ProcessPagesFrom(doc, page_no + 1, ocr,
                                  Append(pages_data, r.page_data))

process_pdf(doc, ocr) == ProcessPagesFrom(doc, 0, ocr, <<>>)

----------------------------------------------------------------------------
(* Inputs of the chunker.                                                  *)

MaxSentenceTokens == 3   \* pieces (sentences, blanks) a page text is made of
MaxPages == 2            \* pages of a PDF

Body(ch, n) == [i \in 1..n |-> ch]

\* Pieces of page text: short and long sentences with their terminators, a
\* blank sentence, and a word without a terminator.
TextTokens ==
    { <<"a", " ", "b", ".">>,
      Body("x", MaxChunkSize \div 2) \o <<"!", "?", " ">>,
      Body("y", MaxChunkSize \div 2 - 1) \o <<".">>,
      Body("z", MaxChunkSize + 1) \o <<".">>,
      <<" ", ".">>,
      <<"c">> }

PageTexts ==
    {Flatten(ts) : ts \in UNION {[1..m -> TextTokens] : m \in 0..MaxSentenceTokens}}

RawImage(ocr_text, gray_or_rgb) ==
    [ocr_text |-> ocr_text, bbox |-> <<0, 0, 1, 1>>, confidence |-> <<9, 10>>,
     gray_or_rgb |-> gray_or_rgb]

ImgOcr == RawImage(<<"o", "c", "r", "\n">>, TRUE)

ImgBlank == RawImage(<<" ">>, TRUE)

ImgCmyk == RawImage(<<"o", "c", "r">>, FALSE)

RawTable(rows) == [rows |-> rows, bbox |-> <<0, 0, 2, 2>>]

TblGood == RawTable(<< <<Cell(<<"h">>)>>, <<Cell(<<"1">>), Cell(<<"2">>)>> >>)

TblNoneData == RawTable(<< <<Cell(<<"h">>)>>, <<Cell(<<"1">>), NoneCell>> >>)

TblHeaderOnly == RawTable(<< <<Cell(<<"h">>)>> >>)

TblNoneHeader == RawTable(<< <<NoneCell>>, <<Cell(<<"1">>)>> >>)

TblEmptyRows == RawTable(<< <<>>, <<>> >>)

\* Block lists a page handed to the chunker comes with.
PageBlocks(page_no) ==
    { [images |-> <<>>, tables |-> <<>>],
      [images |-> extract_images_with_ocr(<<ImgOcr>>, page_no, TRUE),
       tables |-> extract_tables(<<TblGood>>, page_no)] }

InitChunkPage ==
    /\ page_text \in PageTexts
    /\ page_num \in 0..(MaxPages - 1)
    /\ \E b \in PageBlocks(page_num) :
          /\ images_data = b.images
          /\ tables_data = b.tables
    /\ chunksOut = NoRun
    /\ FirstIdle
    /\ LaterIdleExcept("chunk")

\* One call of _create_strict_chunks.
CreateStrictChunks ==
    /\ chunksOut = NoRun
    /\ chunksOut' = create_strict_chunks(page_text, page_num, images_data, tables_data)
    /\ UNCHANGED <<page_text, page_num, images_data, tables_data>>
    /\ UNCHANGED <<fusionVars, answerVars, groundVars>>
    /\ LaterFrame("chunk")

NextChunkPage == CreateStrictChunks

SpecChunkPage == InitChunkPage /\ [][NextChunkPage]_vars

RawPage(text, images, tables) == [text |-> text, images |-> images, tables |-> tables]

TwoChunkText ==
    Body("x", MaxChunkSize \div 2) \o <<"!", " ">> \o Body("z", MaxChunkSize + 1) \o <<".">>

PagePool ==
    { RawPage(<<>>, <<>>, <<>>),
      RawPage(<<"a", " ", "b", ".", " ", "c", "?">>, <<>>, <<>>),
      RawPage(TwoChunkText, <<ImgOcr>>, <<>>),
      RawPage(<<"a", ".">>, <<ImgOcr, ImgBlank, ImgOcr>>, <<>>),
      RawPage(<<>>, <<ImgCmyk>>, <<TblGood, TblHeaderOnly, TblGood>>),
      RawPage(<<"c">>, <<ImgOcr>>, <<TblGood>>),
      RawPage(<<"a", ".">>, <<>>, <<TblEmptyRows>>),
      RawPage(<<"a", ".">>, <<>>, <<TblNoneData>>),
      RawPage(<<"a", ".">>, <<>>, <<TblNoneHeader>>) }

Pdfs == UNION {[1..m -> PagePool] : m \in 1..MaxPages}

InitPdf ==
    /\ pdf \in Pdfs
    /\ enable_ocr \in BOOLEAN
    /\ pagesOut = NoRun
    /\ FirstIdle
    /\ LaterIdleExcept("pdf")

\* One call of process_pdf(pdf_content, filename).
ProcessPdf ==
    /\ pagesOut = NoRun
    /\ pagesOut' = process_pdf(pdf, enable_ocr)
    /\ UNCHANGED <<pdf, enable_ocr>>
    /\ UNCHANGED <<fusionVars, answerVars, groundVars>>
    /\ LaterFrame("pdf")

NextPdf == ProcessPdf

SpecPdf == InitPdf /\ [][NextPdf]_vars

----------------------------------------------------------------------------
(* Properties of the chunker.                                              *)

PdfProcessed == pagesOut.status = "ok"

TextChunksOf(chunks) == SelectSeq(chunks, LAMBDA c : c.chunk_type = "text")

SentenceLists(chunks) ==
    LET tc == TextChunksOf(chunks)
    IN [k \in 1..Len(tc) |-> tc[k].metadata.sentences]

\* C12: every chunk created from page P of a processed PDF carries P's
\* 1-based page number, a text chunk is made of sentences of P only (its text
\* is those sentences joined by blanks), and the first text chunk of P starts
\* with P's first sentence: no buffer is carried over from the page before.
C12_ChunkNonCrossing ==
    PdfProcessed =>
        /\ Len(pagesOut.pages) = Len(pdf)
        /\ \A p \in 1..Len(pdf) :
              LET pd == pagesOut.pages[p]
                  own == split_into_sentences(pdf[p].text)
                  tc == TextChunksOf(pd.chunks)
              IN /\ pd.page_number = p
                 /\ \A k \in 1..Len(pd.chunks) : pd.chunks[k].page = p
                 /\ \A k \in 1..Len(tc) :
                       /\ Range(tc[k].metadata.sentences) \subseteq Range(own)
                       /\ tc[k].text = Join(<<" ">>, tc[k].metadata.sentences)
                 /\ tc # <<>> => tc[1].metadata.sentences[1] = own[1]

\* C12 witness: a two-page PDF was processed whose first page ends in a
\* sentence left in the buffer and whose second page gave a text chunk, an
\* image chunk and a table chunk.
C12_Witness ==
    /\ PdfProcessed
    /\ Len(pdf) = 2
    /\ TextChunksOf(pagesOut.pages[1].chunks) # <<>>
    /\ {"text", "image", "table"} \subseteq
          {pagesOut.pages[2].chunks[k].chunk_type :
              k \in 1..Len(pagesOut.pages[2].chunks)}

ChunksMade == chunksOut.status = "ok"

\* C13: the sentence lists of the text chunks of a page, concatenated in
\* chunk order, are exactly the non-empty sentences the page text splits
\* into, in order.
C13_ChunkCoverage ==
    ChunksMade =>
        Flatten(SentenceLists(chunksOut.chunks)) = split_into_sentences(page_text)

\* C13 witness: a page with a sentence longer than the maximum chunk size,
\* at least two other sentences and a blank piece was chunked into two text
\* chunks or more.
C13_Witness ==
    /\ ChunksMade
    /\ LET own == split_into_sentences(page_text)
       IN /\ Len(own) >= 3
          /\ \E i \in 1..Len(own) : Len(own[i]) > MaxChunkSize
          /\ Len(re_split(page_text)) > Len(own)
    /\ Len(TextChunksOf(chunksOut.chunks)) >= 2

\* C14 (as claimed): every text chunk that holds two or more sentences has a
\* text of at most 500 characters.
C14_ChunkSizeBound ==
    ChunksMade =>
        \A k \in 1..Len(chunksOut.chunks) :
            LET c == chunksOut.chunks[k]
            IN (c.chunk_type = "text" /\ Len(c.metadata.sentences) >= 2)
                   => Len(c.text) <= MaxChunkSize

AllChunks(pages) == Flatten([p \in 1..Len(pages) |-> pages[p].chunks])

\* C15 (as claimed): no two chunks of a processed document have the same
\* chunk_id.
C15_ChunkIdUnique ==
    PdfProcessed =>
        LET all == AllChunks(pagesOut.pages)
        IN \A i, j \in 1..Len(all) : i # j => all[i].chunk_id # all[j].chunk_id

----------------------------------------------------------------------------
(* Startup: the lifespan of main.py and EmbeddingService.initialize.       *)
(* The ASGI server runs the lifespan up to its yield before it accepts a   *)
(* request and exits when the lifespan raises; a server that does not run  *)
(* the lifespan protocol serves the application with every handle unset.   *)
(* The coroutines are cut at their awaits: the initialization of the       *)
(* store, each load of the model in the executor, each asyncio.sleep.      *)

max_retries == 3

ErrorKinds == {"OSError", "RuntimeError", "ValueError"}

RECURSIVE Pow2(_)
Pow2(n) == IF n = 0 THEN 1 ELSE 2 * Pow2(n - 1)

\* Mutant of WaitTime: the same wait after every failure.
WaitTime_Constant(a) == 1

\* wait_time = 2 ** attempt
WaitTime(a) == Pow2(a)

\* if attempt < max_retries - 1
ShouldRetry(a) == a < max_retries - 1

\* Mutant of OnInitFailure: the lifespan logs the failure and yields anyway.
OnInitFailure_Degraded == "yielded"

\* except Exception as e: logger.error(...); raise
OnInitFailure == "raised"

InitStartup ==
    /\ server \in {"lifespan", "no_lifespan"}
    /\ lifespanPc = "not_started"
    /\ deps = NoDeps
    /\ collection = "None"
    /\ model = "None"
    /\ attempt = 0
    /\ embedPc = "idle"
    /\ loads = <<>>
    /\ slept = <<>>
    /\ response = NoRun
    /\ FirstIdle
    /\ LaterIdleExcept("app")

\* The rest of the frame of a startup step.
StartupFrame ==
    /\ UNCHANGED <<fusionVars, answerVars, groundVars>>
    /\ LaterFrame("app")

\* lifespan, up to the await of chroma_store.initialize() (main.py 49-54).
LifespanStart ==
    /\ server = "lifespan"
    /\ lifespanPc = "not_started"
    /\ deps' = [deps EXCEPT !["chroma_store"] = "set"]
    /\ lifespanPc' = "chroma_init"
    /\ UNCHANGED <<server, collection, model, attempt, embedPc, loads, slept, response>>
    /\ StartupFrame

\* ChromaStore.initialize() returns or raises (store.py 24-46); on return the
\* lifespan builds the EmbeddingService and enters its initialize()
\* (main.py 57-58, embed.py 23-33).
ChromaInitialize ==
    /\ lifespanPc = "chroma_init"
    /\ \E ok \in BOOLEAN :
          IF ok
          THEN /\ collection' = "set"
               /\ deps' = [deps EXCEPT !["embedding_service"] = "set"]
               /\ lifespanPc' = "embed_init"
               /\ embedPc' = "loading"
               /\ attempt' = 0
          ELSE /\ lifespanPc' = OnInitFailure
               /\ UNCHANGED <<collection, deps, embedPc, attempt>>
    /\ UNCHANGED <<server, model, loads, slept, response>>
    /\ StartupFrame

\* The constructors after the two initializations and the yield
\* (main.py 60-77); a constructor that raises ends the lifespan.
FinishLifespan(ok) ==
    IF ok
    THEN /\ deps' = [d \in Services |-> "set"]
         /\ lifespanPc' = "yielded"
    ELSE /\ deps' = deps
         /\ lifespanPc' = OnInitFailure

\* One load of the model in the executor returns or raises (embed.py 30-46).
LoadModel ==
    /\ embedPc = "loading"
    /\ \E outcome \in {"ok"} \cup ErrorKinds :
          /\ loads' = Append(loads, outcome)
          /\ IF outcome = "ok"
             THEN /\ model' = "loaded"
                  /\ embedPc' = "returned"
                  /\ slept' = slept
                  /\ \E ok \in BOOLEAN : FinishLifespan(ok)
             ELSE /\ model' = model
                  /\ IF ShouldRetry(attempt)
                     THEN /\ slept' = Append(slept, WaitTime(attempt))
                          /\ embedPc' = "sleeping"
                          /\ UNCHANGED <<deps, lifespanPc>>
                     ELSE /\ slept' = slept
                          /\ embedPc' = "raised"
                          /\ deps' = deps
                          /\ lifespanPc' = OnInitFailure
    /\ UNCHANGED <<server, collection, attempt, response>>
    /\ StartupFrame

\* asyncio.sleep(wait_time) returns; the loop goes to its next attempt.
Wake ==
    /\ embedPc = "sleeping"
    /\ attempt' = attempt + 1
    /\ embedPc' = "loading"
    /\ UNCHANGED <<server, lifespanPc, deps, collection, model, loads, slept, response>>
    /\ StartupFrame

Serving ==
    \/ server = "lifespan" /\ lifespanPc = "yielded"
    \/ server = "no_lifespan"

\* A request to an endpoint that depends on service d: the getter of
\* core/deps.py answers 503 when the handle is None, otherwise the handler
\* runs (embed_texts raises RuntimeError when the model is None).
Request ==
    /\ Serving
    /\ \E d \in Services :
          response' =
              IF deps[d] = "None"
              THEN [status |-> "503", dep |-> d]
              ELSE [status |-> "handler_ran", dep |-> d,
                    collection |-> collection, model |-> model,
                    embed_texts |-> IF model = "None" THEN "RuntimeError" ELSE "ok"]
    /\ UNCHANGED <<server, lifespanPc, deps, collection, model, attempt, embedPc,
                   loads, slept>>
    /\ StartupFrame

NextStartup == LifespanStart \/ ChromaInitialize \/ LoadModel \/ Wake \/ Request

SpecStartup == InitStartup /\ [][NextStartup]_vars

\* The event loop resumes the lifespan, the executor ends every load and
\* every sleep ends.
SpecStartupFair ==
    /\ SpecStartup
    /\ WF_vars(LifespanStart)
    /\ WF_vars(ChromaInitialize)
    /\ WF_vars(LoadModel)
    /\ WF_vars(Wake)

----------------------------------------------------------------------------
(* Properties of the startup.                                              *)

Failures == Cardinality({i \in 1..Len(loads) : loads[i] # "ok"})

Terminated == embedPc \in {"returned", "raised"}

RetryLoopShape ==
    /\ Len(loads) <= 3
    /\ \A i \in 1..(Len(loads) - 1) : loads[i] # "ok"
    /\ slept = Take(<<1, 2>>, Failures)
    /\ embedPc = "returned" <=> (loads # <<>> /\ loads[Len(loads)] = "ok")
    /\ embedPc = "returned" => model = "loaded"
    /\ embedPc = "raised" <=> Failures = 3
    /\ embedPc = "raised" => model = "None"

\* C16: initialize() makes at most 3 load attempts and none after a success,
\* sleeps 1 second after the first failure, 2 seconds after the second and
\* not after the third, raises after the third failure with the model still
\* None, and, once entered, always ends by returning or raising.
C16_BoundedRetry ==
    /\ []RetryLoopShape
    /\ (embedPc = "loading") ~> Terminated

\* C16 witness: three loads failed, the waits were 1 and 2 seconds, and
\* initialize() raised with the model unset.
C16_Witness ==
    /\ embedPc = "raised"
    /\ Len(loads) = 3
    /\ slept = <<1, 2>>
    /\ model = "None"

InitializationComplete == collection = "set" /\ model = "loaded"

\* C17: the application started by the lifespan serves only after the store
\* and the model were initialized (a failed initialization ends the startup
\* for good), a handler never runs with an uninitialized service, and a
\* request whose service handle is None is answered with 503.
C17_InitFailureFatal ==
    /\ (server = "lifespan" /\ lifespanPc = "yielded") => InitializationComplete
    /\ (lifespanPc = "raised") => response = NoRun
    /\ response.status = "handler_ran" =>
          /\ response.collection = "set"
          /\ response.model = "loaded"
          /\ response.embed_texts = "ok"
    /\ (response # NoRun /\ deps[response.dep] = "None") => response.status = "503"

\* C17 witness: the store was initialized, the model failed to load three
\* times, the lifespan raised and no request was ever answered.
C17_Witness ==
    /\ server = "lifespan"
    /\ collection = "set"
    /\ embedPc = "raised"
    /\ lifespanPc = "raised"
    /\ response = NoRun

----------------------------------------------------------------------------
(* A query and its provider calls: the embedding call, the vector read and *)
(* the lexical read of search(), the completion call of generate_answer.   *)

\* bm25_results = await self._bm25_search(query, doc_id, top_k * 2)
LexicalRead(q, pool, k, lexOk) == bm25_search(q, pool, k, lexOk)

\* search(query, doc_id, top_k) with the outcome of each provider call it
\* makes: calls counts them, threw names those that threw.
search_query(q, vector, pool, k, order, embedOk, vectorOk, lexOk) ==
    IF ~embedOk
    THEN [outcome |-> search(vector, <<>>, k, order, FALSE, vectorOk),
          calls |-> [embedding |-> 1, vector |-> 0, lexical |-> 0],
          threw |-> {"embedding"}]
    ELSE IF ~vectorOk
    THEN [outcome |-> search(vector, <<>>, k, order, TRUE, FALSE),
          calls |-> [embedding |-> 1, vector |-> 1, lexical |-> 0],
          threw |-> {"vector"}]
    ELSE LET lex == LexicalRead(q, pool, 2 * k, lexOk)
         IN [outcome |-> IF lex.status = "raised" THEN lex
                         ELSE search(vector, lex.results, k, order, TRUE, TRUE),
             calls |-> [embedding |-> 1, vector |-> 1, lexical |-> 1],
             threw |-> IF lexOk THEN {} ELSE {"lexical"}]

ProviderQueries == { <<>>, <<"a">>, <<"A", "b", " ", "a">> }

ProviderPassages == { <<>>, <<Passage("d1:1:0", "d1", 1, <<"a", "b", "c">>, <<9, 10>>)>> }

ProviderAnswers == { <<"o", "k">>, <<"[", "p", ".", "1", "]">> }

\* The vector read answers with the first entries of the collection, at
\* most top_k * 2 of them.
InitProviders ==
    /\ query \in ProviderQueries
    /\ all_results \in {VectorHits(s) : s \in LexPools}
    /\ top_k \in 1..MaxTopK
    /\ \E n \in 0..Len(all_results) :
          /\ n <= 2 * top_k
          /\ vector_results = VectorHits([i \in 1..n |->
                                  Stored(all_results[i].id, all_results[i].text,
                                         all_results[i].metadata)])
    /\ hashSeed = CHOOSE o \in HashOrders : TRUE
    /\ passages \in ProviderPassages
    /\ answer \in ProviderAnswers
    /\ bm25_results = <<>>
    /\ fused = NoRun
    /\ prevFused = NoRun
    /\ searchOut = NoRun
    /\ extractOut = NoRun
    /\ answerOut = NoRun
    /\ gInput = <<0, 0>>
    /\ gScore = NoRun
    /\ bm25_top_k = 1
    /\ bm25Out = NoRun
    /\ queryOut = NoRun
    /\ askOut = NoRun
    /\ ChunkIdle
    /\ PdfIdle
    /\ AppIdle
    /\ IngestIdle
    /\ TailIdleExcept("none")

\* One call of SearchService.search(query, doc_id, top_k).
SearchQuery ==
    /\ queryOut = NoRun
    /\ \E embedOk, vectorOk, lexOk \in BOOLEAN :
          queryOut' = search_query(query, vector_results, all_results, top_k,
                                   hashSeed, embedOk, vectorOk, lexOk)
    /\ UNCHANGED askOut
    /\ UNCHANGED <<fusionVars, answerVars, groundVars, lexVars, chunkVars,
                   pdfVars, appVars, ingestVars, tailVars>>

NextProviders == SearchQuery \/ GenerateAnswer

SpecProviders == InitProviders /\ [][NextProviders]_vars

\* C18 (as claimed): when the embedding call, a vector-index call (the
\* vector read or the lexical read) or the completion call throws, search /
\* generate_answer raises (no result is returned), and no provider call is
\* made more than once.
C18_ProviderFailurePropagates ==
    /\ queryOut # NoRun =>
          /\ queryOut.threw # {} => queryOut.outcome.status = "raised"
          /\ \A c \in DOMAIN queryOut.calls : queryOut.calls[c] <= 1
    /\ answerOut # NoRun =>
          /\ answerOut.llm_calls <= 1
          /\ (answerOut.status = "raised" /\ answerOut.error = "ProviderError")
                 => (answerOut.llm_calls = 1 /\ answerOut.extract_calls = 0)

----------------------------------------------------------------------------
(* Ingestion: POST /ingest (routers/ingest.py) and ChromaStore.store_chunks. *)
(* A doc_id is the number of the generate_doc_id() call that made it (the  *)
(* ULID of every call is new); a record id f"{doc_id}:{page}:{i}" is the   *)
(* record of the three values.                                             *)

MaxIngests == 2      \* POST /ingest requests of a behaviour

\* The embedding the model gives a text: a vector fixed by the text.
Embed(text) == <<Len(text), WordCount(text)>>

RecordId(doc_id, page, i) == [doc_id |-> doc_id, page |-> page, i |-> i]

\* The record collection.add stores for chunk number i (0-based) of chunks.
ChunkRecord(doc_id, chunks, embeddings, i) ==
    [id |-> RecordId(doc_id, chunks[i + 1].page, i),
     embedding |-> embeddings[i + 1],
     document |-> chunks[i + 1].text,
     metadata |-> [doc_id |-> doc_id, page |-> chunks[i + 1].page,
                   bbox_id |-> chunks[i + 1].bbox_id,
                   headings |-> chunks[i + 1].headings,
                   chunk |-> chunks[i + 1].metadata]]

DocMetaRecord(doc_id, embeddings, metadata) ==
    [id |-> [doc_meta |-> doc_id],
     embedding |-> [k \in 1..Len(embeddings[1]) |-> 0],
     document |-> [DOCUMENT_METADATA |-> doc_id],
     metadata |-> [doc_id |-> doc_id,
                   original_name |-> metadata.original_name,
                   file_url |-> metadata.file_url,
                   pages |-> metadata.pages]]

\* store_chunks(doc_id, chunks, embeddings, metadata) on a collection that
\* holds records: ",".join(chunk.headings) raises TypeError on a chunk whose
\* headings is None, embeddings[0] raises IndexError on an empty list.
store_chunks(records, doc_id, chunks, embeddings, metadata) ==
    IF \E i \in 1..Len(chunks) : chunks[i].headings = PyNone
    THEN [status |-> "raised", error |-> "TypeError", index |-> records]
    ELSE IF embeddings = <<>>
    THEN [status |-> "raised", error |-> "IndexError", index |-> records]
    ELSE [status |-> "ok",
          index |-> records
                    \cup {ChunkRecord(doc_id, chunks, embeddings, i) :
                             i \in 0..(Len(chunks) - 1)}
                    \cup {DocMetaRecord(doc_id, embeddings, metadata)}]

\* A call of store_chunks with the positional arguments args: the method
\* takes four, any other number raises TypeError before its body runs.
CallStoreChunks(records, args) ==
    IF Len(args) # 4
    THEN [status |-> "raised", error |-> "TypeError", index |-> records]
    ELSE store_chunks(records, args[1], args[2], args[3], args[4])

Answer500(detail, records) ==
    [response |-> [status |-> "500", detail |-> detail], index |-> records]

\* Lines 150-165 of ingest_document: generate_doc_id, the store_chunks call
\* with its three arguments, and the IngestResponse.
StoreAndRespond(records, doc_id, all_chunks, pages) ==
    LET stored == CallStoreChunks(records,
                     << doc_id, all_chunks,
                        [original_name |-> "notes.pdf", file_url |-> "u",
                         pages |-> pages, chunks |-> Len(all_chunks)] >>)
    IN IF stored.status = "raised"
       THEN Answer500(stored.error, records)
       ELSE [response |-> [status |-> "200", doc_id |-> doc_id,
                           pages |-> pages, chunks |-> Len(all_chunks),
                           state |-> "ready"],
             index |-> stored.index]

\* Lines 143-147 of ingest_document: one embed_text call per chunk, in order;
\* a failing call ends the request.
EmbedChunks(records, doc_id, produced, pages, embedOk) ==
    IF produced # <<>> /\ ~embedOk
    THEN Answer500("EmbeddingError", records)
    ELSE StoreAndRespond(records, doc_id,
                         [i \in 1..Len(produced) |->
                             [produced[i] EXCEPT
                                 !.embedding = Embed(produced[i].text)]],
                         pages)

\* Line 140 of ingest_document, on what process_pdf answered.
IngestPages(records, doc_id, processed, embedOk) ==
    IF processed.status = "raised"
    THEN Answer500(processed.error, records)
    ELSE EmbedChunks(records, doc_id, AllChunks(processed.pages),
                     Len(processed.pages), embedOk)

\* ingest_document(request, ...): download, process_pdf, one embed_text per
\* chunk, generate_doc_id, store_chunks(doc_id, all_chunks, {...}), response.
ingest_document(records, file, ocr, doc_id, downloadOk, embedOk) ==
    IF ~downloadOk
    THEN Answer500("ClientError", records)
    ELSE IngestPages(records, doc_id, process_pdf(file, ocr), embedOk)

InitIngest ==
    /\ pdf \in Pdfs
    /\ enable_ocr \in BOOLEAN
    /\ pagesOut = NoRun
    /\ index = {}
    /\ ingestLog = <<>>
    /\ FirstIdle
    /\ LexIdle
    /\ ChunkIdle
    /\ AppIdle
    /\ ProviderIdle
    /\ TailIdleExcept("none")

\* One POST /ingest for the PDF, answered; providers says whether the
\* download and the embedding calls of this request returned.
Ingest ==
    /\ Len(ingestLog) < MaxIngests
    /\ \E downloadOk, embedOk \in BOOLEAN :
          LET r == ingest_document(index, pdf, enable_ocr, Len(ingestLog) + 1,
                                   downloadOk, embedOk)
          IN /\ index' = r.index
             /\ ingestLog' = Append(ingestLog,
                                [response |-> r.response,
                                 providers |-> downloadOk /\ embedOk])
    /\ UNCHANGED <<fusionVars, answerVars, groundVars, lexVars, chunkVars,
                   pdfVars, appVars, providerVars, tailVars>>

NextIngest == Ingest

SpecIngest == InitIngest /\ [][NextIngest]_vars

\* The chunks the chunker produces for the ingested PDF.
ProducedChunks == AllChunks(process_pdf(pdf, enable_ocr).pages)

\* The POST /ingest requests whose download, processing and embedding calls
\* all returned.
Served ==
    {n \in 1..Len(ingestLog) :
        ingestLog[n].providers /\ process_pdf(pdf, enable_ocr).status = "ok"}

\* The chunk records the index holds under doc_id.
RecordsOf(doc_id) ==
    {r \in index : r.id \in [doc_id : {doc_id}, page : Nat, i : Nat]}

\* One record of rs for every chunk: its text, its own embedding, its page.
OneRecordPerChunk(rs, chunks) ==
    /\ Cardinality(rs) = Len(chunks)
    /\ \A i \in 1..Len(chunks) :
          \E r \in rs : /\ r.id.i = i - 1
                        /\ r.document = chunks[i].text
                        /\ r.embedding = Embed(chunks[i].text)
                        /\ r.metadata.page = chunks[i].page

\* C19 (as claimed): a POST /ingest whose download, processing and embedding
\* succeed finishes successfully: it answers pages = number of pages, chunks =
\* number of records and status "ready", and the index holds under the
\* returned doc_id one record per chunk of the PDF, with the chunk's text, its
\* own embedding and its page number.
C19_IngestionCompleteness ==
    \A n \in Served :
        LET resp == ingestLog[n].response
        IN /\ resp.status = "200"
           /\ resp.state = "ready"
           /\ resp.pages = Len(pdf)
           /\ resp.chunks = Cardinality(RecordsOf(resp.doc_id))
           /\ OneRecordPerChunk(RecordsOf(resp.doc_id), ProducedChunks)

\* The chunk records of the index, whatever their doc_id.
ChunkRecords == {r \in index : "page" \in DOMAIN r.id}

\* C20 (as claimed): after the same PDF was ingested a second time, the index
\* holds the chunk records of a single complete ingestion: one per chunk of
\* the PDF, none twice.
C20_IdempotentReingestion ==
    (Len(ingestLog) >= 2 /\ Served = 1..Len(ingestLog)) =>
        /\ Cardinality(ChunkRecords) = Len(ProducedChunks)
        /\ \A i \in 1..Len(ProducedChunks) :
              \E r \in ChunkRecords :
                  /\ r.document = ProducedChunks[i].text
                  /\ r.metadata.page = ProducedChunks[i].page

----------------------------------------------------------------------------
(* Requests on the event loop.  A coroutine runs until it awaits something *)
(* that suspends: search() suspends in embed_text (run_in_executor) only;  *)
(* ChromaStore.search and ChromaStore.store_chunks are coroutines without  *)
(* an await in their bodies, so awaiting them never hands over the loop.   *)

MaxQueries == 2      \* search() coroutines of a behaviour
MaxStoreCalls == 1   \* store_chunks calls and ingestions of a behaviour

QueryIds == 1..MaxQueries

\* The records one store_chunks call adds for a document: its chunk records,
\* then the per-document record.
Batch(doc) ==
    IF doc = "d1"
    THEN << Stored("d1:1:0", <<"a">>, ChunkMeta("d1", 1)),
            Stored("d1:1:1", <<"b">>, ChunkMeta("d1", 1)),
            Stored("d1:2:2", <<"c">>, ChunkMeta("d1", 2)),
            Stored("doc_meta:d1", <<"M">>, DocMeta("d1")) >>
    ELSE << Stored("d2:1:0", <<"d">>, ChunkMeta("d2", 1)),
            Stored("doc_meta:d2", <<"M">>, DocMeta("d2")) >>

\* collection.add(...) twice, store.py 92-106.
AddBatch(records, doc) == records \o Batch(doc)

\* Whether awaiting ChromaStore.search suspends the caller (its body,
\* store.py 121-148, holds no await).
StoreSearchSuspends_Yes == TRUE

StoreSearchSuspends == FALSE

\* collection.query: the n nearest records; the model ranks the records
\* whose text the query contains before the others, each in insertion order.
Nearest(records, q, n) ==
    Take(SelectSeq(records, LAMBDA r : Contains(r.text, q))
         \o SelectSeq(records, LAMBDA r : ~Contains(r.text, q)), n)

\* ChromaStore.search: every formatted result is a dict made by the call.
store_search(records, q, n) == VectorHits(Nearest(records, q, n))

\* The collection after search() assigned result["score"] on the results of
\* its reads (search.py 96, 151): the results are the call's own dicts.
CollectionAfterScoring_Aliased(records, results) ==
    [i \in 1..Len(records) |->
        IF \E j \in 1..Len(results) : results[j].id = records[i].id
        THEN results[CHOOSE j \in 1..Len(results) : results[j].id = records[i].id]
        ELSE records[i]]

CollectionAfterScoring(records, results) == records

\* Lines 33-37, 40 and 43-62 of search(), on the locals r of the coroutine.
DoVectorRead(r, records) ==
    [r EXCEPT !.vector_results = Returned(store_search(records, r.query, 2 * r.top_k)),
              !.vector_seen = Returned(records)]

DoLexicalRead(r, records) ==
    [r EXCEPT !.bm25_results =
                  Returned(bm25_search(r.query, store_search(records, <<>>, 1000),
                                       2 * r.top_k, TRUE).results),
              !.lexical_seen = Returned(records)]

DoFusion(r, order) ==
    LET fused_results == reciprocal_rank_fusion(r.vector_results.results,
                                                r.bm25_results.results,
                                                r.top_k, order)
    IN [r EXCEPT !.fused_results = Returned(fused_results),
                 !.outcome = ConvertFrom(fused_results, 1, <<>>),
                 !.pc = "done"]

AfterLexicalRead(r, order) == DoFusion(r, order)

AfterVectorRead(r, records, order) ==
    IF StoreSearchSuspends
    THEN [DoLexicalRead(r, records) EXCEPT !.pc = "lexical_read"]
    ELSE AfterLexicalRead(DoLexicalRead(r, records), order)

AfterEmbedding(r, records, order) ==
    IF StoreSearchSuspends
    THEN [DoVectorRead(r, records) EXCEPT !.pc = "vector_read"]
    ELSE AfterVectorRead(DoVectorRead(r, records), records, order)

\* The coroutine r resumed (its embedding arrived, or the read it awaited
\* returned): it runs to its next suspension or to its end.
Resumed(r, records, order) ==
    IF r.pc = "embedding"
    THEN AfterEmbedding(r, records, order)
    ELSE IF r.pc = "vector_read"
    THEN AfterVectorRead(r, records, order)
    ELSE AfterLexicalRead(r, order)

LoopQueries == { <<"a">>, <<"d">> }

InitLoop ==
    /\ coll \in { <<>>, Batch("d2") }
    /\ req = [q \in QueryIds |-> QueryIdle]
    /\ storeCalls = 0
    /\ hashSeed = CHOOSE o \in HashOrders : TRUE
    /\ vector_results = <<>>
    /\ bm25_results = <<>>
    /\ top_k \in 1..MaxTopK
    /\ fused = NoRun
    /\ prevFused = NoRun
    /\ searchOut = NoRun
    /\ passages = <<>>
    /\ answer = <<>>
    /\ extractOut = NoRun
    /\ answerOut = NoRun
    /\ gInput = <<0, 0>>
    /\ gScore = NoRun
    /\ LaterIdleExcept("loop")

LoopFrame == UNCHANGED <<fusionVars, answerVars, groundVars>> /\ LaterFrame("loop")

\* search(query, doc_id, top_k) is called and runs to the await of line 30;
\* asked_len and overlapped note what else ran while the coroutine lived.
\* Query ids number the calls in the order they are made.
StartSearch(q) ==
    /\ req[q].pc = "idle"
    /\ \A p \in QueryIds : p < q => req[p].pc # "idle"
    /\ \E text \in LoopQueries :
          req' = [req EXCEPT ![q] =
                     [pc |-> "embedding", query |-> text, top_k |-> top_k,
                      asked_len |-> Len(coll), overlapped |-> FALSE,
                      vector_results |-> NoRun, vector_seen |-> NoRun,
                      bm25_results |-> NoRun, lexical_seen |-> NoRun,
                      fused_results |-> NoRun, outcome |-> NoRun]]
    /\ UNCHANGED <<coll, storeCalls>>
    /\ LoopFrame

\* The loop resumes the coroutine of query q.
ResumeSearch(q) ==
    /\ req[q].pc \in {"embedding", "vector_read", "lexical_read"}
    /\ LET r == Resumed([req[q] EXCEPT !.overlapped =
                             @ \/ \E p \in QueryIds \ {q} : req[p].pc = "embedding"],
                         coll, hashSeed)
       IN /\ req' = [req EXCEPT ![q] = r]
          /\ coll' = CollectionAfterScoring(
                         coll,
                         IF r.fused_results = NoRun THEN <<>>
                         ELSE r.fused_results.results)
    /\ UNCHANGED storeCalls
    /\ LoopFrame

\* A task calls store_chunks(doc_id, chunks, embeddings, metadata): the two
\* collection.add calls run without a suspension between them.
StoreChunks ==
    /\ storeCalls < MaxStoreCalls
    /\ \E doc \in {"d1", "d2"} : coll' = AddBatch(coll, doc)
    /\ storeCalls' = storeCalls + 1
    /\ UNCHANGED req
    /\ LoopFrame

\* A POST /ingest resumed after its last embed_text: its store_chunks call
\* raises on its three arguments and writes nothing.
IngestResumed ==
    /\ storeCalls < MaxStoreCalls
    /\ coll' = CallStoreChunks(coll, << "d1", <<>>, <<>> >>).index
    /\ storeCalls' = storeCalls + 1
    /\ UNCHANGED req
    /\ LoopFrame

NextLoop ==
    \/ \E q \in QueryIds : StartSearch(q)
    \/ \E q \in QueryIds : ResumeSearch(q)
    \/ StoreChunks
    \/ IngestResumed

SpecLoop == InitLoop /\ [][NextLoop]_vars

QueryDone(q) == req[q].pc = "done"

\* What search() answers for the query of r when nothing else runs: the
\* sequential search_query on the collection it read.
AnsweredAlone(r) ==
    search_query(r.query,
                 store_search(r.vector_seen.results, r.query, 2 * r.top_k),
                 store_search(r.vector_seen.results, <<>>, 1000),
                 r.top_k, hashSeed, TRUE, TRUE, TRUE).outcome

\* A step of query q: its search() is called or resumed.
QueryStep(q) == StartSearch(q) \/ ResumeSearch(q)

ResultsIndependent == \A q \in QueryIds : QueryDone(q) => req[q].outcome = AnsweredAlone(req[q])

\* C21: in every interleaving, a step of a query leaves the collection and
\* the locals of every other query as they were, and the outcome of a
\* finished query is the one search() gives for it alone on the collection it
\* read, whatever other queries ran meanwhile.
C21_QueriesReadOnly ==
    /\ [][\A q \in QueryIds :
             QueryStep(q) => /\ coll' = coll
                             /\ \A p \in QueryIds \ {q} : req'[p] = req[p]]_vars
    /\ []ResultsIndependent

\* Two queries finished, one of them while the other was suspended, on a
\* collection from which the reads returned candidates.
C21_Witness ==
    \E q \in QueryIds : \E p \in QueryIds \ {q} :
        /\ QueryDone(q) /\ QueryDone(p)
        /\ req[q].overlapped
        /\ req[q].fused_results # NoRun
        /\ req[q].fused_results.results # <<>>
        /\ req[p].fused_results # NoRun

\* C25: the vector read and the lexical read of a query saw the collection
\* in the same state, and the fusion ran only when both reads had returned.
C25_SnapshotConsistency ==
    \A q \in QueryIds :
        /\ req[q].pc # "idle" =>
              /\ req[q].lexical_seen # NoRun =>
                    /\ req[q].vector_seen # NoRun
                    /\ req[q].lexical_seen = req[q].vector_seen
              /\ req[q].fused_results # NoRun =>
                    /\ req[q].vector_results # NoRun
                    /\ req[q].bm25_results # NoRun

\* A query that was suspended while store_chunks wrote: it read a collection
\* that differs from the one it was asked on, and fused both reads.
C25_Witness ==
    \E q \in QueryIds :
        /\ QueryDone(q)
        /\ req[q].fused_results # NoRun
        /\ Len(req[q].vector_seen.results) > req[q].asked_len
        /\ req[q].lexical_seen = req[q].vector_seen

----------------------------------------------------------------------------
(* POST /ask (routers/chat.py).                                            *)

\* The answer of lines 34-39.
NoResultsAnswer ==
    <<"I", " ", "c", "o", "u", "l", "d", "n", "'", "t", " ", "f", "i", "n",
      "d", " ", "r", "e", "l", "e", "v", "a", "n", "t", " ", "i", "n", "f",
      "o", "r", "m", "a", "t", "i", "o", "n", " ", "i", "n", " ", "y", "o",
      "u", "r", " ", "d", "o", "c", "u", "m", "e", "n", "t", "s", " ", "t",
      "o", " ", "a", "n", "s", "w", "e", "r", " ", "t", "h", "i", "s", " ",
      "q", "u", "e", "s", "t", "i", "o", "n", ".">>

\* Parameters of AnswerService.generate_answer, and the keywords ask_question
\* passes to it (chat.py 42-45).
GenerateAnswerParams == {"query", "search_results"}

AskKeywords == {"query", "retrieval_results"}

\* Keyword arguments ask_question passes to Citation(...), lines 50-57.
AskCitationKwargs(result) ==
    [page |-> result.page, text |-> Quote(result.text), score |-> result.score,
     doc_id |-> result.doc_id, chunk_id |-> result.chunk_id,
     bbox_id |-> Get(result.metadata, "bbox_id", "None")]

Answer500With(detail, calls) ==
    [status |-> "500", detail |-> detail, answer_calls |-> calls]

\* Lines 33-39: the answer to a request whose retrieval is empty.
\* (First definition: a handler that hands the empty list to the answer
\* service.)
EmptyRetrievalAnswer_AskService(results) ==
    [status |-> "200", answer |-> generate_answer(results, "text", <<>>).answer,
     citations |-> <<>>, retrieval |-> <<>>, grounding_score |-> Zero,
     answer_calls |-> 1]

EmptyRetrievalAnswer(results) ==
    [status |-> "200", answer |-> NoResultsAnswer, citations |-> <<>>,
     retrieval |-> <<>>, grounding_score |-> Zero, answer_calls |-> 0]

\* Lines 41-65: the generate_answer call, the citations and the response.
AnswerAndCite(retrieval_results, llm, answer_text) ==
    IF AskKeywords # GenerateAnswerParams
    THEN Answer500With("TypeError", 1)
    ELSE LET answer_result == generate_answer(retrieval_results, llm, answer_text)
         IN IF answer_result.status = "raised"
            THEN Answer500With(answer_result.error, 1)
            ELSE IF \E i \in 1..Len(retrieval_results) :
                       ~Validates(CitationRequired,
                                  AskCitationKwargs(retrieval_results[i]))
            THEN Answer500With("ValidationError", 1)
            ELSE [status |-> "200", answer |-> answer_result.answer,
                  citations |-> [i \in 1..Len(retrieval_results) |->
                                    AskCitationKwargs(retrieval_results[i])],
                  retrieval |-> retrieval_results,
                  grounding_score |-> answer_result.grounding_score,
                  answer_calls |-> 1]

\* ask_question on what search() answered: any exception becomes a 500.
ask_question(searched, llm, answer_text) ==
    IF searched.status = "raised" THEN Answer500With(searched.error, 0)
    ELSE IF searched.results = <<>> THEN EmptyRetrievalAnswer(searched.results)
    ELSE AnswerAndCite(searched.results, llm, answer_text)

\* One POST /ask with a valid body; the limiter made for the request admits
\* it (see the rate limiter below).
AskQuestion ==
    /\ askOut = NoRun
    /\ \E embedOk, vectorOk, lexOk \in BOOLEAN, llm \in {"text", "throws"} :
          LET sq == search_query(query, vector_results, all_results, top_k,
                                 hashSeed, embedOk, vectorOk, lexOk)
          IN askOut' = [response |-> ask_question(sq.outcome, llm, answer),
                        searched |-> sq.outcome,
                        threw |-> sq.threw]
    /\ UNCHANGED queryOut
    /\ UNCHANGED <<fusionVars, answerVars, groundVars, lexVars, chunkVars,
                   pdfVars, appVars, ingestVars, tailVars>>

NextAsk == AskQuestion

SpecAsk == InitProviders /\ [][NextAsk]_vars

Asked == askOut # NoRun

\* The list the fusion hands to the conversion of search() for the request.
Retrieved ==
    reciprocal_rank_fusion(vector_results,
                           LexicalRead(query, all_results, 2 * top_k, TRUE).results,
                           top_k, hashSeed)

\* C22 (as claimed): POST /ask for a query with non-empty retrieval, all
\* providers answering, responds with the citations the extractor made from
\* the generated answer: one per matched marker, in the order of the markers.
C22_AskCitationsFromExtractor ==
    (Asked /\ askOut.threw = {} /\ Retrieved # <<>>) =>
        /\ askOut.response.status = "200"
        /\ LET ex == extract_citations(askOut.response.answer,
                                       askOut.response.retrieval)
           IN /\ ex.status = "ok"
              /\ askOut.response.citations = ex.citations

\* C23: POST /ask for which search returns no results answers 200 with a
\* refusal, no citations, no retrieval and grounding score 0, and the answer
\* service is not called.
C23_EmptyRetrievalNotAnError ==
    (Asked /\ askOut.searched.status = "ok" /\ askOut.searched.results = <<>>) =>
        /\ askOut.response.status = "200"
        /\ askOut.response.answer = NoResultsAnswer
        /\ askOut.response.citations = <<>>
        /\ askOut.response.retrieval = <<>>
        /\ askOut.response.grounding_score = Zero
        /\ askOut.response.answer_calls = 0

\* A request on a collection that holds records, whose search returned the
\* empty list, was answered.
C23_Witness ==
    /\ Asked
    /\ askOut.searched.status = "ok"
    /\ askOut.searched.results = <<>>
    /\ all_results # <<>>
    /\ askOut.response.status = "200"

----------------------------------------------------------------------------
(* POST /quiz (routers/quiz.py) and QuizService.generate_quiz.  A JSON body *)
(* is the function from its keys to their values.                          *)

MaxSnippets == 2     \* longest snippet list handed to generate_quiz

\* models/types.py 117: num_questions: int = Field(5, ge=1, le=20)
DefaultQuestions == 5
MinQuestions == 1
MaxQuestions == 20

\* models/types.py 10-14
QuestionType == {"short_answer", "multiple_choice", "cloze"}

\* The value generate_quiz gives the "type" of every item (rag/quiz.py 36).
ItemType == "short-answer"

\* Lines 21-22: the legacy field n stands in for a missing num_questions.
Normalize(body) ==
    IF "n" \in DOMAIN body /\ "num_questions" \notin DOMAIN body
    THEN [k \in DOMAIN body \cup {"num_questions"} |->
             IF k = "num_questions" THEN body["n"] ELSE body[k]]
    ELSE body

\* QuizRequest(**request).num_questions: the field or its default; unknown
\* keys such as n are ignored.
NumQuestions(body) == Get(body, "num_questions", DefaultQuestions)

QuizRequestValidates(body) ==
    MinQuestions <= NumQuestions(body) /\ NumQuestions(body) <= MaxQuestions

\* QuizService.generate_quiz(snippets, n)
QuizItems(list, n) ==
    IF list = <<>> THEN <<>>
    ELSE LET top == Take(list, IF Min(n, Len(list)) > 1 THEN Min(n, Len(list)) ELSE 1)
         IN [i \in 1..Len(top) |->
                [type |-> ItemType,
                 prompt |-> [key_idea_of_page |-> top[i].page],
                 answer |-> IF Take(strip(top[i].text), 240) # <<>>
                            THEN Take(strip(top[i].text), 240)
                            ELSE <<"R", "e", "f", "e", "r">>,
                 page |-> top[i].page,
                 quote |-> Take(strip(top[i].text), 240)]]

\* Lines 55-73 of the handler: every item becomes a QuizQuestion, whose type
\* must be a member of QuestionType.
QuizAnswer(items) ==
    IF \E i \in 1..Len(items) : items[i].type \notin QuestionType
    THEN [status |-> "500", detail |-> "ValidationError"]
    ELSE [status |-> "200", questions |-> items, estimated_time |-> Len(items) * 2]

\* Lines 39-46: the snippets made of the search results.
SnippetsOf(results) ==
    [i \in 1..Len(results) |->
        [text |-> results[i].text, page |-> results[i].page,
         content |-> results[i].text]]

\* generate_quiz(request) of the router on what search() answered: the 404
\* is re-raised, any other exception becomes a 500.
quiz_handler(body, searched) ==
    IF ~QuizRequestValidates(Normalize(body))
    THEN [status |-> "500", detail |-> "ValidationError"]
    ELSE IF searched.status = "raised"
    THEN [status |-> "500", detail |-> searched.error]
    ELSE IF searched.results = <<>>
    THEN [status |-> "404", detail |-> "No content found for quiz generation"]
    ELSE QuizAnswer(QuizItems(SnippetsOf(searched.results),
                              NumQuestions(Normalize(body))))

QuizValues == {0, 1, 2, 20, 21}

Payloads == UNION {[D -> QuizValues] : D \in SUBSET {"n", "num_questions"}}

SnippetPool ==
    { [text |-> <<" ", "a", "b">>, page |-> 1],
      [text |-> <<>>, page |-> 2],
      [text |-> <<"c">>, page |-> 3] }

InitQuiz ==
    /\ payload \in Payloads
    /\ snippets \in UNION {[1..m -> SnippetPool] : m \in 0..MaxSnippets}
    /\ quizOut = NoRun
    /\ itemsOut = NoRun
    /\ query = <<"a">>
    /\ all_results \in { <<>>, VectorHits(<<Stored("d1:1:0", <<"a">>, ChunkMeta("d1", 1))>>) }
    /\ vector_results = all_results
    /\ top_k = 20
    /\ hashSeed = CHOOSE o \in HashOrders : TRUE
    /\ bm25_results = <<>>
    /\ fused = NoRun
    /\ prevFused = NoRun
    /\ searchOut = NoRun
    /\ passages = <<>>
    /\ answer = <<>>
    /\ extractOut = NoRun
    /\ answerOut = NoRun
    /\ gInput = <<0, 0>>
    /\ gScore = NoRun
    /\ bm25_top_k = 1
    /\ bm25Out = NoRun
    /\ ChunkIdle
    /\ PdfIdle
    /\ AppIdle
    /\ ProviderIdle
    /\ IngestIdle
    /\ TailIdleExcept("quiz")

QuizFrame ==
    /\ UNCHANGED <<fusionVars, answerVars, groundVars, lexVars, chunkVars,
                   pdfVars, appVars, providerVars, ingestVars>>
    /\ TailFrame("quiz")

\* One POST /quiz with the body payload.
QuizRequest ==
    /\ quizOut = NoRun
    /\ \E embedOk, vectorOk, lexOk \in BOOLEAN :
          LET sq == search_query(query, vector_results, all_results, top_k,
                                 hashSeed, embedOk, vectorOk, lexOk)
          IN quizOut' = [response |-> quiz_handler(payload, sq.outcome),
                         searched |-> sq.outcome, threw |-> sq.threw]
    /\ UNCHANGED <<payload, snippets, itemsOut>>
    /\ QuizFrame

\* One call of QuizService.generate_quiz(snippets, n) for an accepted
\* request, and the conversion of its items by the handler.
GenerateQuiz ==
    /\ itemsOut = NoRun
    /\ QuizRequestValidates(Normalize(payload))
    /\ LET items == QuizItems(snippets, NumQuestions(Normalize(payload)))
       IN itemsOut' = [items |-> items, response |-> QuizAnswer(items)]
    /\ UNCHANGED <<payload, snippets, quizOut>>
    /\ QuizFrame

NextQuiz == QuizRequest \/ GenerateQuiz

SpecQuiz == InitQuiz /\ [][NextQuiz]_vars

\* The num_questions the claim gives a body.
ClaimedNumQuestions ==
    IF "num_questions" \in DOMAIN payload THEN payload["num_questions"]
    ELSE IF "n" \in DOMAIN payload THEN payload["n"]
    ELSE DefaultQuestions

\* C24 (as claimed): a body with n and no num_questions is treated as
\* num_questions = n, one with both keeps its num_questions, one with neither
\* gets 5; when the resulting num_questions is in 1..20 and the providers
\* answer, the request is answered 200, or 404 when search finds no content.
C24_QuizNormalization ==
    quizOut # NoRun =>
        /\ NumQuestions(Normalize(payload)) = ClaimedNumQuestions
        /\ (ClaimedNumQuestions \in MinQuestions..MaxQuestions /\ quizOut.threw = {}) =>
              IF all_results = <<>>
              THEN quizOut.response.status = "404"
              ELSE quizOut.response.status = "200"

\* C30 (as claimed): every item generate_quiz makes has a type of
\* QuestionType, and for a non-empty snippet list the handler converts the
\* items to min(num_questions, number of snippets) questions, answered 200,
\* each with the page of its snippet.
C30_QuizItemTypes ==
    (itemsOut # NoRun /\ snippets # <<>>) =>
        /\ \A i \in 1..Len(itemsOut.items) : itemsOut.items[i].type \in QuestionType
        /\ itemsOut.response.status = "200"
        /\ Len(itemsOut.response.questions)
              = Min(NumQuestions(Normalize(payload)), Len(snippets))
        /\ \A i \in 1..Len(itemsOut.response.questions) :
              itemsOut.response.questions[i].page = snippets[i].page

----------------------------------------------------------------------------
(* Several chunks of one (doc_id, page) in one candidate list.             *)

\* Number of entries of key k in list.
Multiplicity(list, k) ==
    Cardinality({i \in 1..Len(list) : HasKey(list[i]) /\ KeyOf(list[i]) = k})

Repeated(k) == Multiplicity(vector_results, k) > 1 \/ Multiplicity(bm25_results, k) > 1

\* The partial score the claim gives key k in list: the one of its first
\* (best-ranked) occurrence.
FirstOccurrenceScore(list, k) ==
    IF OccursIn(list, k) THEN Frac(1, FirstPos(list, k)) ELSE Zero

\* C26 (as claimed): for a key that occurs several times in one input list,
\* the fused entry is the first occurrence encountered (vector list, then
\* lexical list) and its score is the sum of the partial scores of the first
\* occurrence of the key in each list.
C26_FirstOccurrenceWins ==
    (FusionRan /\ WellFormedInputs) =>
        \A i \in 1..Len(fused.results) :
            LET k == KeyOf(fused.results[i])
                first == (vector_results \o bm25_results)[FirstSeen(k)]
            IN Repeated(k) =>
                  /\ fused.results[i].id = first.id
                  /\ fused.results[i].text = first.text
                  /\ fused.results[i].metadata = first.metadata
                  /\ fused.results[i].score
                        = FracAdd(FirstOccurrenceScore(vector_results, k),
                                  FirstOccurrenceScore(bm25_results, k))

----------------------------------------------------------------------------
(* What search() returns from a collection written by store_chunks.        *)

IsChunkRecord(r) == HasKey(r)

\* result is the projection of a chunk record of records.
ProjectionOfChunk(result, records) ==
    \E i \in 1..Len(records) :
        /\ IsChunkRecord(records[i])
        /\ result.doc_id = records[i].metadata.doc_id
        /\ result.page = records[i].metadata.page
        /\ result.text = records[i].text

\* C27 (as claimed): on a collection written by store_chunks, no candidate
\* of a query is a per-document record, the query does not fail, and every
\* result it returns is the projection of a stored chunk record.
C27_OnlyChunkProjections ==
    \A q \in QueryIds :
        QueryDone(q) =>
            /\ \A i \in 1..Len(req[q].vector_results.results) :
                  IsChunkRecord(req[q].vector_results.results[i])
            /\ \A i \in 1..Len(req[q].bm25_results.results) :
                  IsChunkRecord(req[q].bm25_results.results[i])
            /\ req[q].outcome.status = "ok"
            /\ \A i \in 1..Len(req[q].outcome.results) :
                  ProjectionOfChunk(req[q].outcome.results[i],
                                    req[q].vector_seen.results)

----------------------------------------------------------------------------
(* The rate limiter of POST /ask (core/deps.py) and GET /docs/{doc_id}     *)
(* (routers/documents.py).                                                 *)

rate_limit_requests == 2   \* settings.rate_limit_requests of the model
rate_limit_window == 2     \* settings.rate_limit_window of the model, seconds
MaxClock == 3              \* last second of a behaviour
MaxAsks == 4               \* POST /ask requests of a behaviour

ClientIps == {"10.0.0.1", "10.0.0.2"}

\* get_rate_limiter(): Depends calls it for every request, and it returns a
\* SimpleRateLimiter made on the spot, whose requests dict is empty.
get_rate_limiter == [ip \in {} |-> <<>>]

\* SimpleRateLimiter.check_rate_limit on the limiter's requests dict.
check_rate_limit(requests, ip, now) ==
    LET window_start == now - rate_limit_window
        cleaned == [a \in DOMAIN requests |->
                       SelectSeq(requests[a], LAMBDA t : t > window_start)]
        ip_requests == Get(cleaned, ip, <<>>)
    IN IF Len(ip_requests) >= rate_limit_requests
       THEN [status |-> "raised", code |-> "429", requests |-> cleaned]
       ELSE [status |-> "ok", requests |-> Put(cleaned, ip, Append(ip_requests, now))]

\* Lines 20-23 and 67-69 of ask_question: the limiter is asked inside the
\* try, whose except Exception answers 500 to an HTTPException as well.
LimiterStep(ip, now) ==
    LET checked == check_rate_limit(get_rate_limiter, ip, now)
    IN [ip |-> ip, time |-> now,
        status |-> IF checked.status = "raised" THEN "500" ELSE "admitted"]

\* ChromaStore.get_document(doc_id): the first record of the document whose
\* metadata has original_name, or None.
get_document(records, doc_id) ==
    LET found == SelectSeq(records,
                           LAMBDA r : /\ r.metadata.doc_id = doc_id
                                      /\ "original_name" \in DOMAIN r.metadata)
    IN IF found = <<>> THEN PyNone ELSE found[1].metadata

\* get_document(doc_id) of the router: the HTTPException(404) is raised
\* inside the try and caught by its except Exception; DocumentResponse(**doc)
\* needs a mapping and is handed a model.
docs_handler(records, doc_id, storeOk) ==
    IF ~storeOk THEN [status |-> "500", detail |-> "Failed to get document"]
    ELSE IF get_document(records, doc_id) = PyNone
    THEN [status |-> "500", detail |-> "Failed to get document",
          caught |-> [status |-> "404", detail |-> "Document not found"]]
    ELSE [status |-> "500", detail |-> "Failed to get document",
          caught |-> [status |-> "raised", error |-> "TypeError"]]

InitApi ==
    /\ clock = 0
    /\ askLog = <<>>
    /\ docOut = NoRun
    /\ coll \in { <<>>, Batch("d1"), Batch("d2"), Batch("d1") \o Batch("d2") }
    /\ req = <<>>
    /\ storeCalls = 0
    /\ QuizIdle
    /\ FirstIdle
    /\ LexIdle
    /\ ChunkIdle
    /\ PdfIdle
    /\ AppIdle
    /\ ProviderIdle
    /\ IngestIdle

ApiFrame ==
    /\ UNCHANGED <<fusionVars, answerVars, groundVars, lexVars, chunkVars,
                   pdfVars, appVars, providerVars, ingestVars, loopVars, quizVars>>

\* A second passes.
Tick ==
    /\ clock < MaxClock
    /\ clock' = clock + 1
    /\ UNCHANGED <<askLog, docOut>>
    /\ ApiFrame

\* A POST /ask from ip reaches the rate limiter.
AskFrom(ip) ==
    /\ Len(askLog) < MaxAsks
    /\ askLog' = Append(askLog, LimiterStep(ip, clock))
    /\ UNCHANGED <<clock, docOut>>
    /\ ApiFrame

\* One GET /docs/{doc_id}.
GetDocument ==
    /\ \E doc_id \in {"d1", "d2"}, storeOk \in BOOLEAN :
          docOut' = [doc_id |-> doc_id, store_ok |-> storeOk,
                     response |-> docs_handler(coll, doc_id, storeOk)]
    /\ UNCHANGED <<clock, askLog>>
    /\ ApiFrame

NextApi == Tick \/ (\E ip \in ClientIps : AskFrom(ip)) \/ GetDocument

SpecApi == InitApi /\ [][NextApi]_vars

\* Requests of ip admitted in the window that ends at second t.
AdmittedInWindow(ip, t) ==
    Cardinality({i \in 1..Len(askLog) :
                    /\ askLog[i].ip = ip
                    /\ askLog[i].status = "admitted"
                    /\ askLog[i].time > t - rate_limit_window
                    /\ askLog[i].time <= t})

\* C28 (as claimed): of the /ask requests of one client at most
\* rate_limit_requests are admitted within any window of rate_limit_window
\* seconds, and a request that is not admitted is answered 429.
C28_RateLimit ==
    /\ \A ip \in ClientIps, t \in 0..MaxClock :
          AdmittedInWindow(ip, t) <= rate_limit_requests
    /\ \A i \in 1..Len(askLog) : askLog[i].status \in {"admitted", "429"}

\* C29 (as claimed): GET /docs/{doc_id} for a doc_id without document
\* metadata in the store is answered 404 "Document not found", a store
\* failure is answered 500.
C29_DocumentNotFound ==
    docOut # NoRun =>
        IF ~docOut.store_ok
        THEN docOut.response.status = "500"
        ELSE get_document(coll, docOut.doc_id) = PyNone =>
                /\ docOut.response.status = "404"
                /\ docOut.response.detail = "Document not found"

====
